---- MODULE Spec2Model ----
(***************************************************************************)
(* codex-manager: the session scanner (package sessions, index.go), the    *)
(* session parser (package sessions), the search index (package search)    *)
(* and the refresh task of the main package.                               *)
(*                                                                         *)
(* Strings are sequences of one-character strings, so that trimming,       *)
(* lower-casing and substring search are computed, not assumed.  File      *)
(* names and working directories are atomic strings; their order is the    *)
(* byte order of the listed universe.                                      *)
(***************************************************************************)
EXTENDS Integers, Sequences, FiniteSets, TLC

VARIABLES
    baseDir,      \* Index.baseDir of the scanner ("" when unset)
    trimUserRequestEnabled,  \* the parser's boot-time flag (-full clears it)
    disk,         \* the sessions tree: path -> NoFile or a file
    diskOps,      \* number of external changes of the tree so far
    byDate,       \* sessions.Index.byDate  (published)
    byName,       \* sessions.Index.byName  (published)
    byCwd,        \* sessions.Index.byCwd   (published)
    updated,      \* sessions.Index.updated (0 is the zero time)
    walk,         \* Refresh in progress: the maps under construction
    files,        \* search.Index.files   (published)
    ordered,      \* search.Index.ordered (published)
    rf,           \* RefreshFrom in progress: its local variables
    pc,           \* position of the refresh task of main
    cycle,        \* number of ticker ticks consumed
    lastErr,      \* error returned by the last Refresh / RefreshFrom
    hist,         \* what the running or last refresh calls started from and did
    view,         \* one buildIndexView request in progress
    reader,       \* the last call of a reading method and what it returned
    mu            \* which of the two sync.RWMutex is held exclusively

vars == <<baseDir, trimUserRequestEnabled, disk, diskOps, byDate, byName, byCwd, updated, walk,
          files, ordered, rf, pc, cycle, lastErr, hist, view, reader, mu>>

----------------------------------------------------------------------------
(* Bounds of the model *)

MaxDiskOps == 1
MaxCycles  == 1
\* date directories of the largest tree of dates
MaxDates   == 3
\* entries of the largest tree of any shape
MaxTree    == 3
\* lines of the longest session file made of lines of every kind
MaxLines   == 3
\* lines of the longest session file searched
ManyLen    == 203

----------------------------------------------------------------------------
(* Strings *)

IsSpace(c) == c \in {" ", "\n", "\r", "\t"}

RECURSIVE TrimLeft(_)
TrimLeft(s) ==
    IF s = <<>> THEN s
    ELSE IF IsSpace(Head(s)) THEN TrimLeft(Tail(s)) ELSE s

RECURSIVE TrimRight(_)
TrimRight(s) ==
    IF s = <<>> THEN s
    ELSE IF IsSpace(s[Len(s)]) THEN TrimRight(SubSeq(s, 1, Len(s) - 1)) ELSE s

TrimSpace(s) == TrimRight(TrimLeft(s))

UpperLetters == <<"A","B","C","D","E","F","G","H","I","J","K","L","M","N","O","P","Q","R","S","T","U","V","W","X","Y","Z">>
LowerLetters == <<"a","b","c","d","e","f","g","h","i","j","k","l","m","n","o","p","q","r","s","t","u","v","w","x","y","z">>
LetterIndex(c, letters) == CHOOSE i \in 1..Len(letters) : letters[i] = c

\* unicode.ToLower of one character; "long-s" stands for the rune U+017F, a
\* lower-case letter (its upper-case form is "S") that ToLower leaves alone
LowerMap == [c \in {UpperLetters[i] : i \in 1..Len(UpperLetters)} |->
               LowerLetters[LetterIndex(c, UpperLetters)]]
LowerChar(c) == IF c \in DOMAIN LowerMap THEN LowerMap[c] ELSE c

\* the three bytes E2 84 AA of the rune U+212A (Kelvin sign), whose lower
\* case is the one byte "k"; the bytes occur only as this triple
KelvinSign == <<"E2", "84", "AA">>
LowerBytes(c) ==
    IF c = KelvinSign[1] THEN <<"k">>
    ELSE IF c \in {KelvinSign[2], KelvinSign[3]} THEN <<>>
    ELSE <<LowerChar(c)>>

\* the concatenation of pieces[lo..hi], by halves
RECURSIVE ConcatRange(_, _, _)
ConcatRange(pieces, lo, hi) ==
    IF lo > hi THEN <<>>
    ELSE IF lo = hi THEN pieces[lo]
    ELSE LET mid == (lo + hi) \div 2
         IN  ConcatRange(pieces, lo, mid) \o ConcatRange(pieces, mid + 1, hi)

\* strings.ToLower on the bytes of s: rune by rune, so the result is shorter
\* than s where a rune has a shorter lower-case form
ToLower(s) ==
    IF \A i \in 1..Len(s) : s[i] # KelvinSign[1]
    THEN [i \in 1..Len(s) |-> LowerChar(s[i])]
    ELSE ConcatRange([i \in 1..Len(s) |-> LowerBytes(s[i])], 1, Len(s))

HasPrefixAt(s, sub, i) ==
    /\ i + Len(sub) - 1 <= Len(s)
    /\ \A k \in 1..Len(sub) : s[i + k - 1] = sub[k]

\* strings.Index, 0-based; -1 when sub does not occur
StringsIndex(s, sub) ==
    IF \E i \in 1..(Len(s) + 1) : HasPrefixAt(s, sub, i)
    THEN (CHOOSE i \in 1..(Len(s) + 1) :
             /\ HasPrefixAt(s, sub, i)
             /\ \A j \in 1..(i - 1) : ~HasPrefixAt(s, sub, j)) - 1
    ELSE -1

\* sum of s[lo..hi], by halves so that long sequences stay shallow
RECURSIVE SumRange(_, _, _)
SumRange(s, lo, hi) ==
    IF lo > hi THEN 0
    ELSE IF lo = hi THEN s[lo]
    ELSE LET mid == (lo + hi) \div 2
         IN  SumRange(s, lo, mid) + SumRange(s, mid + 1, hi)

SeqSum(s) == SumRange(s, 1, Len(s))

RECURSIVE SetSum(_, _)
SetSum(f, S) ==
    IF S = {} THEN 0
    ELSE LET x == CHOOSE y \in S : TRUE IN f[x] + SetSum(f, S \ {x})

RECURSIVE Flatten(_)
Flatten(ss) == IF ss = <<>> THEN <<>> ELSE Head(ss) \o Flatten(Tail(ss))

Range(s) == {s[i] : i \in 1..Len(s)}

Min(a, b) == IF a < b THEN a ELSE b

\* TRUE once v is evaluated: a loop evaluated by halves computes the state
\* its first half leaves before it enters the second half
Evaluated(v) == v = v

----------------------------------------------------------------------------
(* The sessions tree *)

\* date directories <yyyy>/<mm>/<dd>, as the three path segments
D1 == [Year |-> <<"2","0","2","4">>, Month |-> <<"0","1">>, Day |-> <<"0","2">>]
D2 == [Year |-> <<"2","0","2","4">>, Month |-> <<"0","1">>, Day |-> <<"1","0">>]

\* file names of the universe in byte order, and those ending in ".jsonl"
NameOrder  == <<"a.jsonl", "b.jsonl", "notes.txt">>
JsonlNames == {"a.jsonl", "b.jsonl"}

NameIndex(n) == CHOOSE i \in 1..Len(NameOrder) : NameOrder[i] = n
NameLess(a, b) == NameIndex(a) < NameIndex(b)
HasSuffixJsonl(n) == n \in JsonlNames

P(d, n) == [Date |-> d, Name |-> n]

\* the entries filepath.WalkDir can meet, in its (lexical) visiting order
TreeEntries == <<P(D1, "a.jsonl"), P(D1, "b.jsonl"), P(D1, "notes.txt"), P(D2, "a.jsonl")>>
Paths       == Range(TreeEntries)
\* entries that external writers create, rewrite and delete
SessionPaths == {p \in Paths : HasSuffixJsonl(p.Name)}

\* A slash-separated string is kept as the sequence of its segments, each a
\* sequence of characters; a directory entry's name is one segment, taken
\* as one character
FileName(n) == << <<n>> >>

\* path of an entry relative to the root, split at "/"
RelParts(p) == <<p.Date.Year, p.Date.Month, p.Date.Day>> \o FileName(p.Name)

----------------------------------------------------------------------------
(* Log lines.  A line is kept decoded: the envelope type and timestamp,    *)
(* whether the payload decodes, the payload's inner type and role, the     *)
(* text fragments joined, and for a session_meta line the id and working   *)
(* directory of its payload.                                               *)

MetaLine(id, cwd) ==
    [type |-> "session_meta", ts |-> 0, payloadOk |-> TRUE, ptype |-> "", role |-> "",
     text |-> <<>>, id |-> id, cwd |-> cwd]
Msg(role, text) ==
    [type |-> "response_item", ts |-> 0, payloadOk |-> TRUE, ptype |-> "message", role |-> role,
     text |-> text, id |-> "", cwd |-> ""]
Reasoning(text) ==
    [type |-> "response_item", ts |-> 0, payloadOk |-> TRUE, ptype |-> "reasoning", role |-> "",
     text |-> text, id |-> "", cwd |-> ""]
ToolCall ==
    [type |-> "response_item", ts |-> 0, payloadOk |-> TRUE, ptype |-> "function_call", role |-> "",
     text |-> <<>>, id |-> "", cwd |-> ""]
NotJSON ==
    [type |-> "not-json", ts |-> 0, payloadOk |-> FALSE, ptype |-> "", role |-> "",
     text |-> <<>>, id |-> "", cwd |-> ""]

\* a line whose envelope decodes and whose payload does not
BadPayload(type) == [NotJSON EXCEPT !.type = type]
\* a line of another envelope type
EventMsg == [ToolCall EXCEPT !.type = "event_msg", !.ptype = "agent_message"]
\* a line of the flat format: the fields of the record at top level, the
\* "type" of a message or reasoning record where the envelope has its own
FlatMeta(id, cwd, t) == [MetaLine(id, cwd) EXCEPT !.type = "", !.ts = t]
FlatMsg(role, text) == [Msg(role, text) EXCEPT !.type = "message"]
FlatReasoning(text) == [Reasoning(text) EXCEPT !.type = "reasoning"]
\* the line l with the envelope timestamp t
At(l, t) == [l EXCEPT !.ts = t]

\* "#" stands for the marker "## My request for Codex:"
Marker == <<"#">>

\* file contents external writers produce
ContentHello   == <<Msg("user", <<"H","i">>), Msg("assistant", <<"o","k">>)>>
ContentUpdated == <<MetaLine("abc", "/w"), ToolCall, Msg("assistant", <<"U","p">>)>>
ContentRequest == <<Msg("user", <<"x","#"," ","h","i">>), NotJSON,
                     Msg("user", <<"R","e">>), Reasoning(<<"o","k">>)>>
Contents == {ContentHello, ContentUpdated, ContentRequest}
\* contents external writers leave in a session file
WrittenContents == {ContentHello, ContentUpdated}

\* texts of the messages of a long session; every one contains an "i" or "I"
SearchTexts == << <<"H","i">>, <<"h","I","p">>, <<"U","p","long-s","i">>, <<"u","S","i">> >>

\* a session of n messages with alternating roles, so that none is merged
ManyLines(n) ==
    [i \in 1..n |-> Msg(IF i % 2 = 1 THEN "user" ELSE "assistant",
                        SearchTexts[(i % Len(SearchTexts)) + 1])]

\* bytes of a line on disk, newline included
LineBytes(l) == Len(l.text) + (IF l.type = "session_meta" THEN 2 ELSE 1)
FileSize(lines) == SeqSum([i \in 1..Len(lines) |-> LineBytes(lines[i])])

\* modification times external writers leave on a file
ModTimes == {1, 2}

NoFile == [exists |-> FALSE]
File(lines, mt) == [exists |-> TRUE, lines |-> lines, modTime |-> mt]

----------------------------------------------------------------------------
(* package sessions: the full parse (ParseSession) *)

NilMeta == [nil |-> TRUE]
Meta(id, cwd) == [nil |-> FALSE, ID |-> id, Cwd |-> cwd]

NilItem == [nil |-> TRUE]

extractContentText(text) == TrimSpace(text)

\* trimUserRequest that does not look at the flag
trimUserRequestAlways(content, enabled) ==
    LET index == StringsIndex(content, Marker) IN
      IF index = -1 THEN content
      ELSE TrimSpace(SubSeq(content, index + Len(Marker) + 1, Len(content)))

trimUserRequest(content, enabled) ==
    IF ~enabled THEN content
    ELSE LET index == StringsIndex(content, Marker) IN
         IF index = -1 THEN content
         ELSE TrimSpace(SubSeq(content, index + Len(Marker) + 1, Len(content)))

\* a rendering of the payload that is empty
prettyJSONEmpty(l) == <<>>

\* json.Indent of the payload: never empty, carries the payload's text
prettyJSON(l) == <<"{">> \o l.text \o <<"}">>

EmptyPlaceholder == <<"(","e",")">>

parseResponseItem(l, lineNum, enabled) ==
    LET item == [nil |-> FALSE, Line |-> lineNum, Timestamp |-> l.ts, Type |-> l.type,
                 Subtype |-> l.ptype, Role |-> l.role, Content |-> <<>>, Raw |-> l]
        fallback(it) == IF it.Content = <<>>
                        THEN [it EXCEPT !.Content = prettyJSON(l)] ELSE it
        placeholder(it) == IF TrimSpace(it.Content) = <<>>
                           THEN [it EXCEPT !.Content = EmptyPlaceholder] ELSE it
    IN  CASE ~l.payloadOk -> NilItem
          [] l.ptype = "message" ->
               IF l.role # "user" /\ l.role # "assistant" THEN NilItem
               ELSE LET c0 == extractContentText(l.text)
                        c1 == IF l.role = "user" THEN trimUserRequest(c0, enabled) ELSE c0
                    IN  placeholder(fallback([item EXCEPT !.Content = c1]))
          [] l.ptype = "reasoning" ->
               placeholder(fallback([item EXCEPT !.Role = "assistant",
                                                 !.Content = TrimSpace(l.text)]))
          [] OTHER -> NilItem

\* parseLine that does not look at the envelope type
parseLineAnyType(l, lineNum, enabled) == parseResponseItem(l, lineNum, enabled)

\* the item of a line, NilItem when the line yields none
parseLine(l, lineNum, enabled) ==
    CASE l.type = "response_item" -> parseResponseItem(l, lineNum, enabled)
      [] OTHER -> NilItem

\* the header set from a session_meta line although its payload did not decode
parseLineMetaAnyPayload(l) ==
    IF l.type = "session_meta" THEN Meta(l.id, l.cwd) ELSE NilMeta

\* the header a line records in the session, NilMeta when it records none
parseLineMeta(l) ==
    IF l.type = "session_meta" /\ l.payloadOk THEN Meta(l.id, l.cwd) ELSE NilMeta

isUserMessage(item) == item.Subtype = "message" /\ item.Role = "user"

\* the merge loop comparing type and subtype only
mergeStepAnyRole(st, item) ==
    LET current == st.current IN
      IF current.Type = item.Type /\ current.Subtype = item.Subtype
      THEN IF isUserMessage(current) /\ isUserMessage(item)
           THEN [st EXCEPT !.current =
                   [current EXCEPT !.Content = item.Content, !.Line = item.Line,
                                   !.Timestamp = item.Timestamp, !.Raw = item.Raw]]
           ELSE IF TrimSpace(item.Content) # <<>>
           THEN IF TrimSpace(current.Content) # <<>>
                THEN [st EXCEPT !.current =
                        [current EXCEPT !.Content =
                           current.Content \o <<"\n","\n">> \o item.Content]]
                ELSE [st EXCEPT !.current = [current EXCEPT !.Content = item.Content]]
           ELSE st
      ELSE [current |-> item, out |-> Append(st.out, current)]

\* the merge loop taking two items for adjacent only when their lines are
mergeStepNextLine(st, item) ==
    LET current == st.current IN
      IF current.Type = item.Type /\ current.Subtype = item.Subtype
         /\ current.Role = item.Role /\ item.Line = current.Line + 1
      THEN IF isUserMessage(current) /\ isUserMessage(item)
           THEN [st EXCEPT !.current =
                   [current EXCEPT !.Content = item.Content, !.Line = item.Line,
                                   !.Timestamp = item.Timestamp, !.Raw = item.Raw]]
           ELSE IF TrimSpace(item.Content) # <<>>
           THEN IF TrimSpace(current.Content) # <<>>
                THEN [st EXCEPT !.current =
                        [current EXCEPT !.Content =
                           current.Content \o <<"\n","\n">> \o item.Content]]
                ELSE [st EXCEPT !.current = [current EXCEPT !.Content = item.Content]]
           ELSE st
      ELSE [current |-> item, out |-> Append(st.out, current)]

\* the merge loop without its case for groups of user messages
mergeStepJoin(st, item) ==
    LET current == st.current IN
      IF current.Type = item.Type /\ current.Subtype = item.Subtype
         /\ current.Role = item.Role
      THEN IF TrimSpace(item.Content) # <<>>
           THEN IF TrimSpace(current.Content) # <<>>
                THEN [st EXCEPT !.current =
                        [current EXCEPT !.Content =
                           current.Content \o <<"\n","\n">> \o item.Content]]
                ELSE [st EXCEPT !.current = [current EXCEPT !.Content = item.Content]]
           ELSE st
      ELSE [current |-> item, out |-> Append(st.out, current)]

\* one iteration of the merge loop on (current, out)
mergeStep(st, item) ==
    LET current == st.current IN
      IF current.Type = item.Type /\ current.Subtype = item.Subtype
         /\ current.Role = item.Role
      THEN IF isUserMessage(current) /\ isUserMessage(item)
           THEN [st EXCEPT !.current =
                   [current EXCEPT !.Content = item.Content, !.Line = item.Line,
                                   !.Timestamp = item.Timestamp, !.Raw = item.Raw]]
           ELSE IF TrimSpace(item.Content) # <<>>
           THEN IF TrimSpace(current.Content) # <<>>
                THEN [st EXCEPT !.current =
                        [current EXCEPT !.Content =
                           current.Content \o <<"\n","\n">> \o item.Content]]
                ELSE [st EXCEPT !.current = [current EXCEPT !.Content = item.Content]]
           ELSE st
      ELSE [current |-> item, out |-> Append(st.out, current)]

\* the iterations over items[lo..hi] in order, evaluated by halves
RECURSIVE mergeRange(_, _, _, _)
mergeRange(items, lo, hi, st) ==
    IF lo > hi THEN st
    ELSE IF lo = hi THEN mergeStep(st, items[lo])
    ELSE LET mid  == (lo + hi) \div 2
             left == mergeRange(items, lo, mid, st)
         IN  IF Evaluated(left) THEN mergeRange(items, mid + 1, hi, left) ELSE left

mergeLoop(items, i, current, out) ==
    LET st == mergeRange(items, i, Len(items), [current |-> current, out |-> out])
    IN  Append(st.out, st.current)

mergeConsecutive(items) ==
    IF Len(items) = 0 THEN items ELSE mergeLoop(items, 2, items[1], <<>>)

\* the read loop numbering the items it keeps instead of the lines it reads
parseStepCountKept(lines, lineNum, enabled, session) ==
    LET l    == lines[lineNum]
        item == parseLine(l, Len(session.Items) + 1, enabled)
        m    == parseLineMeta(l)
    IN  [Meta  |-> IF m.nil THEN session.Meta ELSE m,
         Items |-> IF item.nil THEN session.Items ELSE Append(session.Items, item)]

\* one iteration of the read loop of ParseSession
parseStep(lines, lineNum, enabled, session) ==
    LET l    == lines[lineNum]
        item == parseLine(l, lineNum, enabled)
        m    == parseLineMeta(l)
    IN  [Meta  |-> IF m.nil THEN session.Meta ELSE m,
         Items |-> IF item.nil THEN session.Items ELSE Append(session.Items, item)]

\* the iterations over lines lo..hi in order, evaluated by halves
RECURSIVE parseRange(_, _, _, _, _)
parseRange(lines, lo, hi, enabled, session) ==
    IF lo > hi THEN session
    ELSE IF lo = hi THEN parseStep(lines, lo, enabled, session)
    ELSE LET mid  == (lo + hi) \div 2
             left == parseRange(lines, lo, mid, enabled, session)
         IN  IF Evaluated(left) THEN parseRange(lines, mid + 1, hi, enabled, left)
             ELSE left

parseLoop(lines, lineNum, enabled, session) ==
    parseRange(lines, lineNum, Len(lines), enabled, session)

\* ParseSession of a file that could be opened and read
ParseSession(lines, enabled) ==
    LET s == parseLoop(lines, 1, enabled, [Meta |-> NilMeta, Items |-> <<>>])
    IN  [Meta |-> s.Meta, Items |-> mergeConsecutive(s.Items)]

----------------------------------------------------------------------------
(* package sessions: the header-only parse (ParseSessionMeta) *)

\* "@" stands for the line "Current working directory:" of an environment
\* context; the element after it is the directory it names
CwdMarker == "@"

\* the directory an environment context in the text names, "" when none
extractCwdFromText(content) ==
    IF \E i \in 1..(Len(content) - 1) : content[i] = CwdMarker
    THEN content[(CHOOSE i \in 1..(Len(content) - 1) :
                    /\ content[i] = CwdMarker
                    /\ \A j \in 1..(i - 1) : content[j] # CwdMarker) + 1]
    ELSE ""

\* the text of a message line, enveloped or flat, of any role
extractMessageTextFromLine(l) ==
    IF l.type = "response_item"
    THEN IF l.payloadOk /\ l.ptype = "message" THEN extractContentText(l.text) ELSE <<>>
    ELSE IF l.type = "message"
    THEN IF l.payloadOk THEN extractContentText(l.text) ELSE <<>>
    ELSE <<>>

\* the header a line carries: the payload of a session_meta envelope, or the
\* fields of a flat line that has at least one of them
metaFromLine(l) ==
    IF l.type = "not-json" THEN NilMeta
    ELSE IF l.type = "session_meta"
    THEN IF l.payloadOk THEN Meta(l.id, l.cwd) ELSE NilMeta
    ELSE IF l.type # "" THEN NilMeta
    ELSE IF l.id = "" /\ l.cwd = "" /\ l.ts = 0 THEN NilMeta
    ELSE Meta(l.id, l.cwd)

\* the fields dst lacks are taken from src
mergeMeta(dst, src) ==
    Meta(IF dst.ID = "" THEN src.ID ELSE dst.ID,
         IF dst.Cwd = "" THEN src.Cwd ELSE dst.Cwd)

\* the loop returns as soon as the header has an id and a working directory
metaComplete(meta) == ~meta.nil /\ meta.ID # "" /\ meta.Cwd # ""

\* the state of the read loop before its first line
MetaStart == [meta |-> NilMeta, cwdCandidate |-> "", read |-> 0, done |-> FALSE]

\* lines 28-34: the candidate after line l
candidateStep(cwdCandidate, l) ==
    LET content == extractMessageTextFromLine(l) IN
      IF cwdCandidate = "" /\ content # <<>> /\ extractCwdFromText(content) # ""
      THEN extractCwdFromText(content) ELSE cwdCandidate

\* the candidate applied whatever the header holds
applyCandidateAlways(meta, cwdCandidate) ==
    IF ~meta.nil /\ cwdCandidate # "" THEN [meta EXCEPT !.Cwd = cwdCandidate] ELSE meta

\* lines 44-46: the candidate fills the working directory the header lacks
applyCandidate(meta, cwdCandidate) ==
    IF ~meta.nil /\ meta.Cwd = "" /\ cwdCandidate # ""
    THEN [meta EXCEPT !.Cwd = cwdCandidate] ELSE meta

\* the loop going on although the header is complete
breakNever(meta) == FALSE

\* lines 48-50: the loop is left once the header is complete
breakWhenComplete(meta) == metaComplete(meta)

\* one iteration of the read loop on line l (lines 25-51).  The test of
\* meta.Timestamp in line 38 is left out: the loop has been left before
\* whenever the header has both its id and its working directory
metaStep(st, l) ==
    LET cand   == candidateStep(st.cwdCandidate, l)
        parsed == metaFromLine(l)
        merged == IF st.meta.nil THEN parsed
                  ELSE IF (st.meta.ID = "" \/ st.meta.Cwd = "") /\ ~parsed.nil
                  THEN mergeMeta(st.meta, parsed)
                  ELSE st.meta
        meta   == applyCandidate(merged, cand)
    IN  [meta |-> meta, cwdCandidate |-> cand, read |-> st.read + 1,
         done |-> breakWhenComplete(meta)]

\* the iterations over lines[lo..hi] in order, evaluated by halves
RECURSIVE metaRange(_, _, _, _)
metaRange(lines, lo, hi, st) ==
    IF lo > hi \/ st.done THEN st
    ELSE IF lo = hi THEN metaStep(st, lines[lo])
    ELSE LET mid == (lo + hi) \div 2
         IN  metaRange(lines, mid + 1, hi, metaRange(lines, lo, mid, st))

metaLoop(lines, i, st) == metaRange(lines, i, Len(lines), st)

\* ParseSessionMeta of a file that could be opened and read
ParseSessionMeta(lines) == metaLoop(lines, 1, MetaStart).meta

----------------------------------------------------------------------------
(* package sessions: working-directory keys *)

UnknownCwd == "(unknown)"

NormalizeCwd(value) == IF value \in {"", " "} THEN UnknownCwd ELSE value

CwdForFile(file) ==
    IF ~file.Meta.nil THEN NormalizeCwd(file.Meta.Cwd) ELSE UnknownCwd

----------------------------------------------------------------------------
(* Go maps: functions whose domain is the set of keys present *)

EmptyMap == [k \in {} |-> {}]
MapPut(m, k, v) == [x \in (DOMAIN m) \cup {k} |-> IF x = k THEN v ELSE m[x]]
\* m[k] of a map of slices: the nil slice when k is absent
MapSlice(m, k) == IF k \in DOMAIN m THEN m[k] ELSE <<>>

NilErr == [kind |-> "nil"]
Err(kind) == [kind |-> kind]
OpenErr(p) == [kind |-> "open", path |-> p]

----------------------------------------------------------------------------
(* sessions/index.go: the scanner *)

DigitChars == {"0","1","2","3","4","5","6","7","8","9"}
DigitVal(c) == CHOOSE n \in 0..9 : <<"0","1","2","3","4","5","6","7","8","9">>[n + 1] = c

isDigits(value) == \A i \in 1..Len(value) : value[i] \in DigitChars

\* ParseDate's ok result; the DateKey is the three segments themselves
ParseDateOk(year, month, day) ==
    /\ Len(year) = 4 /\ Len(month) = 2 /\ Len(day) = 2
    /\ isDigits(year) /\ isDigits(month) /\ isDigits(day)

RECURSIVE AtoiLoop(_, _, _)
AtoiLoop(s, i, acc) ==
    IF i > Len(s) THEN acc
    ELSE IF s[i] \notin DigitChars THEN 0
    ELSE AtoiLoop(s, i + 1, 10 * acc + DigitVal(s[i]))

\* strconv.Atoi with the error dropped: 0 on a malformed number
Atoi(s) == IF s = <<>> THEN 0 ELSE AtoiLoop(s, 1, 0)

DateString(d) == d.Year \o <<"-">> \o d.Month \o <<"-">> \o d.Day

CharOrder == <<"-","0","1","2","3","4","5","6","7","8","9">>
CharRank(c) == CHOOSE i \in 1..Len(CharOrder) : CharOrder[i] = c

RECURSIVE StringGreater(_, _)
StringGreater(a, b) ==
    IF a = <<>> THEN FALSE
    ELSE IF b = <<>> THEN TRUE
    ELSE IF Head(a) # Head(b) THEN CharRank(Head(a)) > CharRank(Head(b))
    ELSE StringGreater(Tail(a), Tail(b))

\* dateGreater that looks at the day before the month
dateGreaterDayFirst(a, b) ==
    IF Atoi(a.Year) # Atoi(b.Year) THEN Atoi(a.Year) > Atoi(b.Year)
    ELSE IF Atoi(a.Day) # Atoi(b.Day) THEN Atoi(a.Day) > Atoi(b.Day)
    ELSE Atoi(a.Month) > Atoi(b.Month)

dateGreater(a, b) ==
    IF Atoi(a.Year) # Atoi(b.Year) THEN Atoi(a.Year) > Atoi(b.Year)
    ELSE IF Atoi(a.Month) # Atoi(b.Month) THEN Atoi(a.Month) > Atoi(b.Month)
    ELSE IF Atoi(a.Day) # Atoi(b.Day) THEN Atoi(a.Day) > Atoi(b.Day)
    ELSE StringGreater(DateString(a), DateString(b))

\* fileLess that looks at the names only
fileLessByName(fi, fj) == NameLess(fi.Name, fj.Name)

\* the less function of Refresh's sort.Slice
fileLess(fi, fj) ==
    IF fi.ModTime = fj.ModTime THEN NameLess(fi.Name, fj.Name)
    ELSE fi.ModTime > fj.ModTime

RECURSIVE InsertFile(_, _)
InsertFile(x, s) ==
    IF s = <<>> THEN <<x>>
    ELSE IF fileLess(x, Head(s)) THEN <<x>> \o s
    ELSE <<Head(s)>> \o InsertFile(x, Tail(s))

\* sort.Slice(files, fileLess): the names of one date are distinct, so the
\* order is total and the result does not depend on the algorithm
RECURSIVE SortFiles(_)
SortFiles(s) == IF s = <<>> THEN <<>> ELSE InsertFile(Head(s), SortFiles(Tail(s)))

RECURSIVE InsertDate(_, _)
InsertDate(x, s) ==
    IF s = <<>> THEN <<x>>
    ELSE IF dateGreater(x, Head(s)) THEN <<x>> \o s
    ELSE <<Head(s)>> \o InsertDate(x, Tail(s))

RECURSIVE SortDates(_)
SortDates(S) ==
    IF S = {} THEN <<>>
    ELSE LET x == CHOOSE y \in S : TRUE IN InsertDate(x, SortDates(S \ {x}))

\* path.Clean of a relative path, segment by segment: empty and "." segments
\* go, ".." takes the segment before it away
RECURSIVE cleanLoop(_, _)
cleanLoop(segs, out) ==
    IF segs = <<>> THEN out
    ELSE IF Head(segs) \in {<<>>, <<".">>} THEN cleanLoop(Tail(segs), out)
    ELSE IF Head(segs) = <<".", ".">> /\ out # <<>> /\ out[Len(out)] # <<".", ".">>
    THEN cleanLoop(Tail(segs), SubSeq(out, 1, Len(out) - 1))
    ELSE cleanLoop(Tail(segs), Append(out, Head(segs)))

\* path.Join: the elements joined with "/", then path.Clean
pathJoin(segs) == cleanLoop(segs, <<>>)

\* NameKey that forgets the date directory
NameKeyNoDate(date, filename) == pathJoin(filename)

\* line 130, line 231: path.Join(date.Path(), filename)
NameKey(date, filename) ==
    pathJoin(<<date.Year, date.Month, date.Day>> \o filename)

\* reads of the published snapshot, each under idx.mu.RLock
Dates == SortDates(DOMAIN byDate)
SessionsByDate(date) == MapSlice(byDate, date)
SessionsByCwd(cwd) == MapSlice(byCwd, NormalizeCwd(cwd))
CwdCounts == [key \in DOMAIN byCwd |-> Len(byCwd[key])]

\* working-directory strings of the headers, in byte order
CwdOrder == <<"", " ", "$HOME", "(unknown)", "/w">>
CwdRank(c) == CHOOSE i \in 1..Len(CwdOrder) : CwdOrder[i] = c

\* the less function of Cwds without its two sentinel cases
cwdLessPlain(a, b) == CwdRank(a) < CwdRank(b)

\* lines 192-200: the less function sort.Slice is given
cwdLess(a, b) ==
    IF a = UnknownCwd THEN FALSE
    ELSE IF b = UnknownCwd THEN TRUE
    ELSE CwdRank(a) < CwdRank(b)

RECURSIVE InsertCwd(_, _)
InsertCwd(x, s) ==
    IF s = <<>> THEN <<x>>
    ELSE IF cwdLess(x, Head(s)) THEN <<x>> \o s
    ELSE <<Head(s)>> \o InsertCwd(x, Tail(s))

RECURSIVE SortCwds(_)
SortCwds(S) ==
    IF S = {} THEN <<>>
    ELSE LET x == CHOOSE y \in S : TRUE IN InsertCwd(x, SortCwds(S \ {x}))

Cwds == SortCwds(DOMAIN byCwd)
LookupOk(date, filename) == NameKey(date, filename) \in DOMAIN byName
Lookup(date, filename) == byName[NameKey(date, filename)]
LastUpdated == updated

ScannerSnapshot == <<byDate, byName, byCwd, updated>>
SearchSnapshot  == <<files, ordered>>

\* time.Now() of the refresh task: one time unit per cycle
Now == cycle + 1

NoWalk == [pos |-> 0]

\* RefreshResult with the swap done before walkErr is looked at
RefreshResultSwapFirst(err, w) ==
    IF err = NilErr \/ err.kind \in {"walk", "info"}
    THEN <<[d \in DOMAIN w.byDate |-> SortFiles(w.byDate[d])], w.byName, w.byCwd, Now>>
    ELSE ScannerSnapshot

\* lines 136-156: the snapshot Refresh leaves behind when it returns err
\* with the walk's maps w; only a nil error swaps the new maps in
RefreshResult(err, w) ==
    IF err = NilErr
    THEN <<[d \in DOMAIN w.byDate |-> SortFiles(w.byDate[d])], w.byName, w.byCwd, Now>>
    ELSE ScannerSnapshot

\* a ticker loop that goes on to RefreshFrom after a failed rescan
AfterRefreshNoSkip(err) ==
    /\ byDate'  = RefreshResult(err, walk)[1]
    /\ byName'  = RefreshResult(err, walk)[2]
    /\ byCwd'   = RefreshResult(err, walk)[3]
    /\ updated' = RefreshResult(err, walk)[4]
    /\ lastErr' = [op |-> "Refresh", err |-> err]
    /\ pc' = "refreshFrom"
    /\ walk' = NoWalk

\* Refresh returns err; the caller (main) goes on to RefreshFrom, except
\* that a failed rescan of the ticker loop skips it
AfterRefresh(err) ==
    /\ byDate'  = RefreshResult(err, walk)[1]
    /\ byName'  = RefreshResult(err, walk)[2]
    /\ byCwd'   = RefreshResult(err, walk)[3]
    /\ updated' = RefreshResult(err, walk)[4]
    /\ lastErr' = [op |-> "Refresh", err |-> err]
    /\ pc' = IF err = NilErr \/ cycle = 0 THEN "refreshFrom" ELSE "wait"
    /\ walk' = NoWalk

\* Refresh up to the start of the walk
RefreshBegin ==
    /\ pc = "refresh"
    /\ hist' = [hist EXCEPT !.scanPre = ScannerSnapshot, !.written = FALSE]
    /\ IF baseDir = ""
       THEN AfterRefresh(Err("empty base directory"))
       ELSE \E statOk \in BOOLEAN :
              IF ~statOk THEN AfterRefresh(Err("stat"))
              ELSE /\ walk' = [pos |-> 1, listed |-> {}, byDate |-> EmptyMap,
                               byName |-> EmptyMap, byCwd |-> EmptyMap]
                   /\ pc' = "walk"
                   /\ UNCHANGED <<lastErr, byDate, byName, byCwd, updated>>
    /\ UNCHANGED <<baseDir, trimUserRequestEnabled, disk, diskOps,
                   files, ordered, rf, cycle, view, reader, mu>>

FirstOfDir(i) == IF i = 1 THEN TRUE ELSE TreeEntries[i - 1].Date # TreeEntries[i].Date

\* the walk function without its check of the three date segments
walkFnAnyDate(parts, isDir, fullPath, st, openOk, w) ==
    IF isDir THEN [err |-> NilErr, w |-> w]
    ELSE IF ~HasSuffixJsonl(parts[Len(parts)][1]) THEN [err |-> NilErr, w |-> w]
    ELSE IF Len(parts) # 4 THEN [err |-> NilErr, w |-> w]
    ELSE IF ~st.exists THEN [err |-> Err("info"), w |-> w]
    ELSE LET date == [Year |-> parts[1], Month |-> parts[2], Day |-> parts[3]]
             meta == IF openOk THEN ParseSessionMeta(st.lines) ELSE NilMeta
             file == [Date |-> date, Name |-> parts[4][1], Path |-> fullPath,
                      Size |-> FileSize(st.lines), ModTime |-> st.modTime,
                      Meta |-> meta]
             cwd  == CwdForFile(file)
         IN  [err |-> NilErr,
              w   |-> [w EXCEPT
                        !.byDate = MapPut(@, date, Append(MapSlice(@, date), file)),
                        !.byName = MapPut(@, NameKey(date, FileName(file.Name)), file),
                        !.byCwd  = MapPut(@, cwd, Append(MapSlice(@, cwd), file))]]

\* lines 86-133, the function WalkDir calls for an entry its directory
\* listed: parts is the entry's path relative to the root split at "/", st
\* the file as it is when the entry is visited (d.Info() fails when it is
\* gone by then), openOk whether ParseSessionMeta can open and read it
walkFn(parts, isDir, fullPath, st, openOk, w) ==
    IF isDir THEN [err |-> NilErr, w |-> w]
    ELSE IF ~HasSuffixJsonl(parts[Len(parts)][1]) THEN [err |-> NilErr, w |-> w]
    ELSE IF Len(parts) # 4 THEN [err |-> NilErr, w |-> w]
    ELSE IF ~ParseDateOk(parts[1], parts[2], parts[3]) THEN [err |-> NilErr, w |-> w]
    ELSE IF ~st.exists THEN [err |-> Err("info"), w |-> w]
    ELSE LET date == [Year |-> parts[1], Month |-> parts[2], Day |-> parts[3]]
             meta == IF openOk THEN ParseSessionMeta(st.lines) ELSE NilMeta
             file == [Date |-> date, Name |-> parts[4][1], Path |-> fullPath,
                      Size |-> FileSize(st.lines), ModTime |-> st.modTime,
                      Meta |-> meta]
             cwd  == CwdForFile(file)
         IN  [err |-> NilErr,
              w   |-> [w EXCEPT
                        !.byDate = MapPut(@, date, Append(MapSlice(@, date), file)),
                        !.byName = MapPut(@, NameKey(date, FileName(file.Name)), file),
                        !.byCwd  = MapPut(@, cwd, Append(MapSlice(@, cwd), file))]]

\* the walk function applied to a file of the tree of sessions, which can be
\* read whenever it exists
WalkFile(e, w) == walkFn(RelParts(e), FALSE, e, disk[e], TRUE, w)

\* one entry of filepath.WalkDir: the directory is read when its first entry
\* is reached; a failing read reaches the walk function as err
WalkStep ==
    /\ pc = "walk"
    /\ walk.pos <= Len(TreeEntries)
    /\ LET e == TreeEntries[walk.pos] IN
       \E readOk \in BOOLEAN :
         IF FirstOfDir(walk.pos) /\ ~readOk
         THEN AfterRefresh(Err("walk")) /\ UNCHANGED hist
         ELSE LET listed == IF FirstOfDir(walk.pos)
                            THEN {q \in Paths : q.Date = e.Date /\ disk[q].exists}
                            ELSE walk.listed
                  w1 == [walk EXCEPT !.listed = listed, !.pos = @ + 1]
                  r  == IF e \in listed THEN WalkFile(e, w1) ELSE [err |-> NilErr, w |-> w1]
              IN  /\ FirstOfDir(walk.pos) \/ readOk
                  /\ IF r.err # NilErr THEN AfterRefresh(r.err)
                     ELSE /\ walk' = r.w
                          /\ UNCHANGED <<pc, lastErr, byDate, byName, byCwd, updated>>
                  /\ hist' = IF e \in listed /\ disk[e].exists
                             THEN [hist EXCEPT !.scanned = MapPut(@, e, disk[e].lines)]
                             ELSE hist
    /\ UNCHANGED <<baseDir, trimUserRequestEnabled, disk, diskOps,
                   files, ordered, rf, cycle, view, reader, mu>>

\* the walk is over without error: each date's files are sorted and
\* idx.mu.Lock() is granted (line 150)
RefreshLock ==
    /\ pc = "walk"
    /\ walk.pos > Len(TreeEntries)
    /\ pc' = "swap"
    /\ mu' = [mu EXCEPT !.scanner = TRUE]
    /\ UNCHANGED <<baseDir, trimUserRequestEnabled, disk, diskOps, byDate, byName,
                   byCwd, updated, walk, files, ordered, rf, cycle, lastErr, hist,
                   view, reader>>

\* lines 151-156: the maps are swapped in, idx.mu is unlocked, nil is returned
RefreshPublish ==
    /\ pc = "swap"
    /\ AfterRefresh(NilErr)
    /\ mu' = [mu EXCEPT !.scanner = FALSE]
    /\ UNCHANGED <<baseDir, trimUserRequestEnabled, disk, diskOps, files, ordered,
                   rf, cycle, hist, view, reader>>

----------------------------------------------------------------------------
(* package search: the search index *)

defaultLimit == 50
maxLimit     == 200
snippetRadius == 60
snippetMax    == 180

DatePath(d) == d.Year \o <<"/">> \o d.Month \o <<"/">> \o d.Day

\* one iteration of the loop of buildEntries: the entries of one item
entriesStep(file, item) ==
    LET content == TrimSpace(item.Content) IN
      IF content = <<>> THEN <<>>
      ELSE <<[date |-> DateString(file.Date), path |-> DatePath(file.Date),
              file |-> file.Name, line |-> item.Line, role |-> item.Role,
              content |-> content, lower |-> ToLower(content)]>>

\* the iterations over items[lo..hi] in order, evaluated by halves
RECURSIVE entriesRange(_, _, _, _)
entriesRange(file, items, lo, hi) ==
    IF lo > hi THEN <<>>
    ELSE IF lo = hi THEN entriesStep(file, items[lo])
    ELSE LET mid == (lo + hi) \div 2
         IN  entriesRange(file, items, lo, mid) \o entriesRange(file, items, mid + 1, hi)

entriesLoop(file, items, i) == entriesRange(file, items, i, Len(items))

\* buildEntries of a file whose ParseSession succeeded on the given lines
buildEntries(file, lines, enabled) ==
    entriesLoop(file, ParseSession(lines, enabled).Items, 1)

\* ParseSession can open the file: it is still there
CanParse(p) == disk[p].exists

\* one iteration of the scan of Search: results so far and the entry met
searchStep(results, item, lower) ==
    IF StringsIndex(item.lower, lower) = -1 THEN results
    ELSE Append(results,
                [Date |-> item.date, Path |-> item.path, File |-> item.file,
                 Line |-> item.line, Role |-> item.role])

\* strings.ReplaceAll of one character by another
ReplaceAll(s, old, new) == [i \in 1..Len(s) |-> IF s[i] = old THEN new ELSE s[i]]

Ellipsis == <<".", ".", ".">>

truncate(value, max) ==
    IF Len(value) <= max THEN value
    ELSE IF max <= 3 THEN SubSeq(value, 1, max)
    ELSE SubSeq(value, 1, max - 3) \o Ellipsis

\* the preview of a result: the bytes of content around matchIndex
makePreview(content, matchIndex, queryLen) ==
    LET cleaned == TrimSpace(ReplaceAll(ReplaceAll(content, "\r", " "), "\n", " ")) IN
      IF cleaned = <<>> THEN <<>>
      ELSE IF matchIndex < 0 \/ matchIndex >= Len(cleaned) \/ queryLen <= 0
      THEN truncate(cleaned, snippetMax)
      ELSE LET start   == IF matchIndex - snippetRadius < 0 THEN 0
                          ELSE matchIndex - snippetRadius
               end     == IF matchIndex + queryLen + snippetRadius > Len(cleaned)
                          THEN Len(cleaned)
                          ELSE matchIndex + queryLen + snippetRadius
               snippet == TrimSpace(SubSeq(cleaned, start + 1, end))
           IN  (IF start > 0 THEN Ellipsis ELSE <<>>) \o snippet
                 \o (IF end < Len(cleaned) THEN Ellipsis ELSE <<>>)

\* lines 130-134 of one iteration of the scan: the preview of a match
previewStep(previews, item, lower, queryLen) ==
    IF StringsIndex(item.lower, lower) = -1 THEN previews
    ELSE Append(previews,
                makePreview(item.content, StringsIndex(item.lower, lower), queryLen))

RECURSIVE previewRange(_, _, _, _, _, _, _)
previewRange(list, lo, hi, lower, queryLen, limit, previews) ==
    IF lo > hi \/ Len(previews) >= limit THEN previews
    ELSE IF lo = hi THEN previewStep(previews, list[lo], lower, queryLen)
    ELSE LET mid == (lo + hi) \div 2
         IN  previewRange(list, mid + 1, hi, lower, queryLen, limit,
                          previewRange(list, lo, mid, lower, queryLen, limit, previews))

\* the iterations over list[lo..hi] in order until limit results are
\* collected, evaluated by halves
RECURSIVE searchRange(_, _, _, _, _, _)
searchRange(list, lo, hi, lower, limit, results) ==
    IF lo > hi \/ Len(results) >= limit THEN results
    ELSE IF lo = hi THEN searchStep(results, list[lo], lower)
    ELSE LET mid == (lo + hi) \div 2
         IN  searchRange(list, mid + 1, hi, lower, limit,
                         searchRange(list, lo, mid, lower, limit, results))

\* a scan that ends at the first entry that does not match
searchLoopStopAtMiss(list, i, lower, limit) ==
    LET all  == searchRange(list, i, Len(list), lower, limit, <<>>)
        miss == {k \in i..Len(list) : StringsIndex(list[k].lower, lower) = -1}
        n    == IF miss = {} THEN Len(list) - i + 1
                ELSE (CHOOSE k \in miss : \A j \in miss : k <= j) - i
    IN  SubSeq(all, 1, Min(n, Len(all)))

searchLoop(list, i, lower, limit) == searchRange(list, i, Len(list), lower, limit, <<>>)

\* a Search that takes any positive limit as it comes
SearchNoClamp(query, limit) ==
    LET q == TrimSpace(query)
        l1 == IF limit <= 0 THEN defaultLimit ELSE limit
    IN  IF q = <<>> THEN <<>> ELSE searchLoop(ordered, 1, ToLower(q), l1)

\* a Search that compares the query as typed
SearchExactCase(query, limit) ==
    LET q == TrimSpace(query)
        l1 == IF limit <= 0 THEN defaultLimit ELSE limit
        l2 == IF l1 > maxLimit THEN maxLimit ELSE l1
    IN  IF q = <<>> THEN <<>> ELSE searchLoop(ordered, 1, q, l2)

\* the Preview fields of the results of Search, in the order of the results
SearchPreviews(query, limit) ==
    LET q == TrimSpace(query)
        l1 == IF limit <= 0 THEN defaultLimit ELSE limit
        l2 == IF l1 > maxLimit THEN maxLimit ELSE l1
    IN  IF q = <<>> THEN <<>>
        ELSE previewRange(ordered, 1, Len(ordered), ToLower(q), Len(q), l2, <<>>)

\* Search over the published list, under idx.mu.RLock: the results without
\* their Preview fields, which SearchPreviews gives
Search(query, limit) ==
    LET q == TrimSpace(query)
        l1 == IF limit <= 0 THEN defaultLimit ELSE limit
        l2 == IF l1 > maxLimit THEN maxLimit ELSE l1
    IN  IF q = <<>> THEN <<>> ELSE searchLoop(ordered, 1, ToLower(q), l2)

\* partition that never trusts the cache
partitionAlwaysParse(list, i, existing, acc) ==
    [acc EXCEPT !.toParse = list]

\* partition that takes every cached path for unchanged
RECURSIVE partitionByPath(_, _, _, _)
partitionByPath(list, i, existing, acc) ==
    IF i > Len(list) THEN acc
    ELSE LET file == list[i]
             key  == file.Path
         IN  IF key \in DOMAIN existing
             THEN partitionByPath(list, i + 1, existing,
                                  [acc EXCEPT !.next = MapPut(@, key, existing[key])])
             ELSE partitionByPath(list, i + 1, existing,
                                  [acc EXCEPT !.toParse = Append(@, file)])

\* partition that compares the size alone
RECURSIVE partitionSizeOnly(_, _, _, _)
partitionSizeOnly(list, i, existing, acc) ==
    IF i > Len(list) THEN acc
    ELSE LET file == list[i]
             key  == file.Path
         IN  IF key \in DOMAIN existing /\ existing[key].size = file.Size
             THEN partitionSizeOnly(list, i + 1, existing,
                                    [acc EXCEPT !.next = MapPut(@, key, existing[key])])
             ELSE partitionSizeOnly(list, i + 1, existing,
                                    [acc EXCEPT !.toParse = Append(@, file)])

\* lines 68-77: cached records that still match are carried over, the other
\* files are queued for parsing
RECURSIVE partition(_, _, _, _)
partition(list, i, existing, acc) ==
    IF i > Len(list) THEN acc
    ELSE LET file == list[i]
             key  == file.Path
         IN  IF key \in DOMAIN existing /\ existing[key].size = file.Size
                /\ existing[key].modTime = file.ModTime
             THEN partition(list, i + 1, existing,
                            [acc EXCEPT !.next = MapPut(@, key, existing[key])])
             ELSE partition(list, i + 1, existing,
                            [acc EXCEPT !.toParse = Append(@, file)])

\* lines 94-101: the flattened list in the scanner's date and file order
RECURSIVE orderedOfFiles(_, _, _)
orderedOfFiles(list, i, next) ==
    IF i > Len(list) THEN <<>>
    ELSE (IF list[i].Path \in DOMAIN next THEN next[list[i].Path].entries ELSE <<>>)
         \o orderedOfFiles(list, i + 1, next)

\* orderedOfDates walking the dates from the last to the first
RECURSIVE orderedOfDatesReversed(_, _, _)
orderedOfDatesReversed(dates, i, next) ==
    IF i > Len(dates) THEN <<>>
    ELSE orderedOfDatesReversed(dates, i + 1, next)
         \o orderedOfFiles(SessionsByDate(dates[i]), 1, next)

RECURSIVE orderedOfDates(_, _, _)
orderedOfDates(dates, i, next) ==
    IF i > Len(dates) THEN <<>>
    ELSE orderedOfFiles(SessionsByDate(dates[i]), 1, next)
         \o orderedOfDates(dates, i + 1, next)

NoRf == [i |-> 0]

\* makeNext that goes on with the existing map
makeNextReuse(existing) == existing

\* line 68: the next cache starts empty, whatever the existing one holds
makeNext(existing) == EmptyMap

\* parsedRecord that appends to the entries already cached
parsedRecordAppend(file, entries, existing) ==
    [size |-> file.Size, modTime |-> file.ModTime,
     entries |-> (IF file.Path \in DOMAIN existing
                  THEN existing[file.Path].entries ELSE <<>>) \o entries]

\* line 91: the record of a file that was parsed
parsedRecord(file, entries, existing) ==
    [size |-> file.Size, modTime |-> file.ModTime, entries |-> entries]

\* retainOnError that records the file being parsed as read, without entries
retainOnErrorAsRead(next, existing, path) ==
    MapPut(next, path, [size |-> rf.toParse[rf.i].Size,
                        modTime |-> rf.toParse[rf.i].ModTime, entries |-> <<>>])

\* retainOnError that gives the kept record the pair of the file as scanned
retainOnErrorRestamped(next, existing, path) ==
    IF path \in DOMAIN existing
    THEN MapPut(next, path, [existing[path] EXCEPT !.size = rf.toParse[rf.i].Size,
                                                    !.modTime = rf.toParse[rf.i].ModTime])
    ELSE next

\* retainOnError that forgets the file
retainOnErrorDrop(next, existing, path) == next

\* lines 86-88: the next cache after the parse of the file at path failed
retainOnError(next, existing, path) ==
    IF path \in DOMAIN existing THEN MapPut(next, path, existing[path]) ELSE next

\* afterFailure that leaves the loop
afterFailureBreak(i, n) == n + 1

\* line 89: continue with the next file of toParse (n files)
afterFailure(i, n) == i + 1

\* lines 83-85: the error RefreshFrom will return
recordErr(firstErr, err) == IF firstErr = NilErr THEN err ELSE firstErr

\* a RefreshFrom that enters its parse loop holding idx.mu exclusively
exclusiveWhileParsingHeld == TRUE

\* lines 64-66: idx.mu.RLock() is released again before the parse loop, which
\* runs without idx.mu
exclusiveWhileParsing == FALSE

\* RefreshFrom up to the parse loop: read the scanner, read idx.files
RefreshFromBegin ==
    /\ pc = "refreshFrom"
    /\ LET dates == Dates
           list  == Flatten([k \in 1..Len(dates) |-> SessionsByDate(dates[k])])
           part  == partition(list, 1, files, [next |-> makeNext(files), toParse |-> <<>>])
       IN  /\ rf' = [i |-> 1, dates |-> dates, files |-> list, existing |-> files,
                     next |-> part.next, toParse |-> part.toParse, firstErr |-> NilErr]
           /\ hist' = [hist EXCEPT !.searchPre = SearchSnapshot,
                                   !.scanUsed = ScannerSnapshot,
                                   !.parsed = {}, !.failed = {}, !.lines = EmptyMap]
    /\ pc' = "parse"
    /\ mu' = [mu EXCEPT !.search = exclusiveWhileParsing]
    /\ UNCHANGED <<baseDir, trimUserRequestEnabled, disk, diskOps, byDate, byName,
                   byCwd, updated, walk, files, ordered, cycle, lastErr, view, reader>>

\* one iteration of the parse loop (lines 80-92); ioOk: os.Open and the reads
\* of ParseSession met no I/O error
ParseStep ==
    /\ pc = "parse"
    /\ rf.i <= Len(rf.toParse)
    /\ \E ioOk \in BOOLEAN :
       LET file == rf.toParse[rf.i] IN
          IF ~CanParse(file.Path) \/ ~ioOk
          THEN /\ rf' = [rf EXCEPT
                          !.i = afterFailure(@, Len(rf.toParse)),
                          !.firstErr = recordErr(@, OpenErr(file.Path)),
                          !.next = retainOnError(@, rf.existing, file.Path)]
               /\ hist' = [hist EXCEPT !.failed = @ \cup {file.Path}]
          ELSE /\ rf' = [rf EXCEPT
                          !.i = @ + 1,
                          !.next = MapPut(@, file.Path,
                                     parsedRecord(file,
                                        buildEntries(file, disk[file.Path].lines,
                                                     trimUserRequestEnabled),
                                        rf.existing))]
               /\ hist' = [hist EXCEPT !.parsed = @ \cup {file.Path},
                                       !.lines = MapPut(@, file.Path, disk[file.Path].lines)]
    /\ UNCHANGED <<baseDir, trimUserRequestEnabled, disk, diskOps, byDate, byName,
                   byCwd, updated, walk, files, ordered, pc, cycle, lastErr, view, reader, mu>>

\* the parse loop is over: the ordered list is built and idx.mu.Lock() is
\* granted (line 103)
RefreshFromLock ==
    /\ pc = "parse"
    /\ rf.i > Len(rf.toParse)
    /\ pc' = "swapFrom"
    /\ mu' = [mu EXCEPT !.search = TRUE]
    /\ UNCHANGED <<baseDir, trimUserRequestEnabled, disk, diskOps, byDate, byName,
                   byCwd, updated, walk, files, ordered, rf, cycle, lastErr, hist,
                   view, reader>>

\* lines 104-108: both are swapped in, idx.mu is unlocked, firstErr returned
RefreshFromPublish ==
    /\ pc = "swapFrom"
    /\ mu' = [mu EXCEPT !.search = FALSE]
    /\ files' = rf.next
    /\ ordered' = orderedOfDates(rf.dates, 1, rf.next)
    /\ lastErr' = [op |-> "RefreshFrom", err |-> rf.firstErr]
    /\ pc' = "wait"
    /\ rf' = NoRf
    /\ hist' = [hist EXCEPT
                 !.src = [p \in DOMAIN rf.next |->
                            IF p \in hist.parsed THEN hist.lines[p]
                            ELSE IF p \in DOMAIN hist.src THEN hist.src[p]
                            ELSE <<>>]]
    /\ UNCHANGED <<baseDir, trimUserRequestEnabled, disk, diskOps, byDate, byName,
                   byCwd, updated, walk, cycle, view, reader>>

----------------------------------------------------------------------------
(* package main: the ticker of the refresh goroutine *)

\* no call of the cycle has started or returned yet
\* scanned: the lines of each file when the walk of this cycle reached it;
\* src: the lines the entries of each cached record were built from
NoHist == [scanPre |-> <<EmptyMap, EmptyMap, EmptyMap, 0>>,
           searchPre |-> <<EmptyMap, <<>>>>,
           scanUsed |-> <<EmptyMap, EmptyMap, EmptyMap, 0>>,
           parsed |-> {}, failed |-> {}, lines |-> EmptyMap, written |-> FALSE,
           tick |-> [search |-> <<EmptyMap, <<>>>>, failed |-> {}],
           scanned |-> EmptyMap, src |-> EmptyMap]
NoErr == [op |-> "none", err |-> NilErr]

\* a ticker whose every tick starts a rescan of its own
cycleDoneOrNot == TRUE

\* lines 46-54: the loop receives the next tick only when the body of the
\* previous one has returned; ticks that fell due meanwhile are delayed
cycleDone == pc = "wait"

Tick ==
    /\ cycleDone
    /\ cycle < MaxCycles
    /\ cycle' = cycle + 1
    /\ pc' = "refresh"
    /\ lastErr' = NoErr
    /\ hist' = [NoHist EXCEPT
                 !.tick = [search |-> SearchSnapshot,
                           failed |-> {f \in UNION {Range(hist.scanUsed[1][d]) :
                                                      d \in DOMAIN hist.scanUsed[1]} :
                                         f.Path \in hist.failed}],
                 !.src = hist.src]
    /\ UNCHANGED <<baseDir, trimUserRequestEnabled, disk, diskOps, byDate, byName,
                   byCwd, updated, walk, files, ordered, rf, view, reader, mu>>

----------------------------------------------------------------------------
(* External writers of the sessions tree *)

\* the tree is followed until the last rescan of a run is over
Followed == pc # "wait" \/ cycle < MaxCycles

DiskFrame ==
    /\ hist' = [hist EXCEPT !.written = TRUE]
    /\ UNCHANGED <<baseDir, trimUserRequestEnabled, byDate, byName, byCwd, updated,
                   walk, files, ordered, rf, pc, cycle, lastErr, view, reader, mu>>

WriteFile ==
    /\ Followed
    /\ diskOps < MaxDiskOps
    /\ \E p \in SessionPaths, lines \in WrittenContents, mt \in ModTimes :
         /\ disk' = [disk EXCEPT ![p] = File(lines, mt)]
         /\ disk'[p] # disk[p]
    /\ diskOps' = diskOps + 1
    /\ DiskFrame

RemoveFile ==
    /\ Followed
    /\ diskOps < MaxDiskOps
    /\ \E p \in SessionPaths :
         /\ disk[p].exists
         /\ disk' = [disk EXCEPT ![p] = NoFile]
    /\ diskOps' = diskOps + 1
    /\ DiskFrame

----------------------------------------------------------------------------
(* web/server.go: one index page request (view other than "dir") *)

NoView == [pc |-> "idle"]
NoReader == [op |-> "none"]
NoLock == [scanner |-> FALSE, search |-> FALSE]

\* RLock() is granted when no writer holds the mutex
CanReadScanner == ~mu.scanner
CanSearch      == ~mu.search

\* main reaches http.ListenAndServe after the initial scan and index build
Serving == cycle > 0 \/ pc = "wait"

ViewFrame ==
    UNCHANGED <<baseDir, trimUserRequestEnabled, disk, diskOps, byDate, byName,
                byCwd, updated, walk, files, ordered, rf, pc, cycle, lastErr, hist,
                reader, mu>>

\* dates := s.idx.Dates()
ViewDates ==
    /\ view.pc = "idle"
    /\ Serving
    /\ CanReadScanner
    /\ view' = [pc |-> "sessions", dates |-> Dates, counts |-> <<>>,
                cwdCounts |-> EmptyMap, snap |-> ScannerSnapshot]
    /\ ViewFrame

\* one iteration: files := s.idx.SessionsByDate(date)
ViewSessions ==
    /\ view.pc = "sessions"
    /\ CanReadScanner
    /\ Len(view.counts) < Len(view.dates)
    /\ view' = [view EXCEPT !.counts =
                  Append(@, Len(SessionsByDate(view.dates[Len(view.counts) + 1])))]
    /\ ViewFrame

\* s.idx.CwdCounts() and the end of buildIndexView
ViewCwdCounts ==
    /\ view.pc = "sessions"
    /\ CanReadScanner
    /\ Len(view.counts) = Len(view.dates)
    /\ view' = [view EXCEPT !.pc = "done", !.cwdCounts = CwdCounts]
    /\ ViewFrame

----------------------------------------------------------------------------
(* Callers of the reading methods *)

ReaderFrame ==
    UNCHANGED <<baseDir, trimUserRequestEnabled, disk, diskOps, byDate, byName,
                byCwd, updated, walk, files, ordered, rf, pc, cycle, lastErr, hist,
                view, mu>>

\* queries and limits callers pass to Search
SearchQueries ==
    {<<>>, <<" ">>, <<"i">>, <<" ","H","I"," ">>, <<"h","i">>, <<"P">>, <<"u","p">>,
     <<"long-s">>, <<"S">>, <<"s">>, <<"z">>}
SearchLimits == {-1, 0, 1, 2, 50, 51, 200, 201}

\* one call of Search, under idx.mu.RLock; list is the flattened list it
\* scanned
SearchCall ==
    /\ reader.op = "none"
    /\ CanSearch
    /\ \E q \in SearchQueries, l \in SearchLimits :
         reader' = [op |-> "Search", query |-> q, limit |-> l,
                    results |-> Search(q, l), previews |-> SearchPreviews(q, l),
                    list |-> ordered]
    /\ ReaderFrame

----------------------------------------------------------------------------
(* Specifications *)

\* the trees the program may be started on; notes.txt is never a session file
InitDisks ==
    { [p \in Paths |-> IF p.Name = "notes.txt" THEN File(<<NotJSON>>, 1)
                       ELSE NoFile],
      [p \in Paths |-> IF p.Name = "notes.txt" THEN File(<<NotJSON>>, 1)
                       ELSE IF p = P(D1, "a.jsonl") THEN File(ContentHello, 1)
                       ELSE IF p = P(D2, "a.jsonl") THEN File(ContentUpdated, 1)
                       ELSE NoFile] }

Init ==
    /\ baseDir \in {"", "/sessions"}
    /\ trimUserRequestEnabled = TRUE
    /\ disk \in InitDisks
    /\ diskOps = 0
    /\ byDate = EmptyMap /\ byName = EmptyMap /\ byCwd = EmptyMap
    /\ updated = 0
    /\ walk = NoWalk
    /\ files = EmptyMap
    /\ ordered = <<>>
    /\ rf = NoRf
    /\ pc = "refresh"
    /\ cycle = 0
    /\ lastErr = NoErr
    /\ hist = NoHist
    /\ view = NoView
    /\ reader = NoReader
    /\ mu = NoLock

Next ==
    \/ RefreshBegin
    \/ WalkStep
    \/ RefreshLock
    \/ RefreshPublish
    \/ RefreshFromBegin
    \/ ParseStep
    \/ RefreshFromLock
    \/ RefreshFromPublish
    \/ Tick
    \/ WriteFile
    \/ RemoveFile

Spec == Init /\ [][Next]_vars

NextView == Next \/ ViewDates \/ ViewSessions \/ ViewCwdCounts

SpecView == Init /\ [][NextView]_vars

\* the trees of the search runs: a long session beside a short one
SearchLens == {0, 1, 3, 52, ManyLen}
SearchDisks ==
    { [p \in Paths |-> IF p.Name = "notes.txt" THEN File(<<NotJSON>>, 1)
                       ELSE IF p = P(D1, "a.jsonl") THEN File(ManyLines(n), 1)
                       ELSE IF p = P(D2, "a.jsonl") THEN File(ContentHello, 1)
                       ELSE NoFile] : n \in SearchLens }

InitSearch ==
    /\ baseDir = "/sessions"
    /\ trimUserRequestEnabled = TRUE
    /\ disk \in SearchDisks
    /\ diskOps = 0
    /\ byDate = EmptyMap /\ byName = EmptyMap /\ byCwd = EmptyMap
    /\ updated = 0
    /\ walk = NoWalk
    /\ files = EmptyMap
    /\ ordered = <<>>
    /\ rf = NoRf
    /\ pc = "refresh"
    /\ cycle = 0
    /\ lastErr = NoErr
    /\ hist = NoHist
    /\ view = NoView
    /\ reader = NoReader
    /\ mu = NoLock

\* the startup scan and index build, and one caller of Search
NextSearch ==
    \/ RefreshBegin
    \/ WalkStep
    \/ RefreshLock
    \/ RefreshPublish
    \/ RefreshFromBegin
    \/ ParseStep
    \/ RefreshFromLock
    \/ RefreshFromPublish
    \/ SearchCall

SpecSearch == InitSearch /\ [][NextSearch]_vars

----------------------------------------------------------------------------
(* Trees of many dates, each date directory holding one session *)

DateUniverse ==
    { [Year |-> y, Month |-> m, Day |-> d] :
        y \in {<<"0","9","9","9">>, <<"2","0","2","4">>},
        m \in {<<"0","2">>, <<"1","1">>},
        d \in {<<"0","9">>, <<"1","0">>} }

DateTree(S) == [p \in {P(d, "a.jsonl") : d \in S} |-> File(ContentHello, 1)]
DatesOnDisk == {p.Date : p \in DOMAIN disk}

\* filepath.WalkDir over a tree of dates: lexical order of the paths
RECURSIVE WalkDates(_, _)
WalkDates(S, w) ==
    IF S = {} THEN w
    ELSE LET d == CHOOSE x \in S :
                    \A y \in S \ {x} : StringGreater(DateString(y), DateString(x))
         IN  WalkDates(S \ {d}, WalkFile(P(d, "a.jsonl"), w).w)

InitDates ==
    /\ baseDir = "/sessions"
    /\ trimUserRequestEnabled = TRUE
    /\ \E S \in SUBSET DateUniverse : Cardinality(S) <= MaxDates /\ disk = DateTree(S)
    /\ diskOps = 0
    /\ byDate = EmptyMap /\ byName = EmptyMap /\ byCwd = EmptyMap
    /\ updated = 0
    /\ walk = NoWalk
    /\ files = EmptyMap
    /\ ordered = <<>>
    /\ rf = NoRf
    /\ pc = "refresh"
    /\ cycle = 0
    /\ lastErr = NoErr
    /\ hist = NoHist
    /\ view = NoView
    /\ reader = NoReader
    /\ mu = NoLock

\* a whole Refresh of the tree of dates; the search index is left out
RefreshDates ==
    /\ pc = "refresh"
    /\ \E walkOk \in BOOLEAN :
         LET w   == WalkDates(DatesOnDisk, [pos |-> 1, listed |-> {}, byDate |-> EmptyMap,
                                            byName |-> EmptyMap, byCwd |-> EmptyMap])
             err == IF walkOk THEN NilErr ELSE Err("walk")
             res == RefreshResult(err, w)
         IN  /\ byDate'  = res[1]
             /\ byName'  = res[2]
             /\ byCwd'   = res[3]
             /\ updated' = res[4]
             /\ lastErr' = [op |-> "Refresh", err |-> err]
    /\ pc' = "wait"
    /\ UNCHANGED <<baseDir, trimUserRequestEnabled, disk, diskOps, walk, files,
                   ordered, rf, cycle, hist, view, reader, mu>>

\* an external writer creates or removes a date directory with its session
WriteDate ==
    /\ Followed
    /\ diskOps < MaxDiskOps
    /\ \E d \in DateUniverse :
         disk' = DateTree(IF d \in DatesOnDisk THEN DatesOnDisk \ {d}
                          ELSE DatesOnDisk \cup {d})
    /\ diskOps' = diskOps + 1
    /\ DiskFrame

\* one call of Dates, under idx.mu.RLock
DatesCall ==
    /\ reader.op = "none"
    /\ CanReadScanner
    /\ pc = "wait" /\ cycle = MaxCycles
    /\ reader' = [op |-> "Dates", dates |-> Dates]
    /\ ReaderFrame

NextDates == RefreshDates \/ WriteDate \/ Tick \/ DatesCall

SpecDates == InitDates /\ [][NextDates]_vars

----------------------------------------------------------------------------
(* Trees of any shape: entries at other depths, under directories that are *)
(* no dates, directories named like sessions, headers of several working   *)
(* directories                                                             *)

Seg(n) == <<n>>

\* the entries a tree is made of, in the order filepath.WalkDir visits them;
\* contents are what the file can hold
TreeOrder ==
    << [rel |-> <<D1.Year, D1.Month, D1.Day, Seg("a.jsonl")>>, dir |-> FALSE,
        contents |-> {ContentHello, ContentUpdated, <<MetaLine("abc", "")>>}],
       [rel |-> <<D1.Year, D1.Month, D1.Day, Seg("b.jsonl")>>, dir |-> TRUE,
        contents |-> {<<>>}],
       [rel |-> <<D1.Year, D1.Month, D1.Day, Seg("notes.txt")>>, dir |-> FALSE,
        contents |-> {ContentUpdated}],
       [rel |-> <<D1.Year, D1.Month, D1.Day, Seg("sub"), Seg("a.jsonl")>>, dir |-> FALSE,
        contents |-> {ContentUpdated}],
       [rel |-> <<D2.Year, D2.Month, D2.Day, Seg("a.jsonl")>>, dir |-> FALSE,
        contents |-> {<<MetaLine("abc", " ")>>, <<MetaLine("abc", "$HOME")>>}],
       [rel |-> <<D1.Year, D1.Month, Seg("a.jsonl")>>, dir |-> FALSE,
        contents |-> {ContentUpdated}],
       [rel |-> <<D1.Year, <<"1">>, D1.Day, Seg("a.jsonl")>>, dir |-> FALSE,
        contents |-> {ContentUpdated}],
       [rel |-> <<D1.Year, <<"1","3">>, <<"9","9">>, Seg("a.jsonl")>>, dir |-> FALSE,
        contents |-> {ContentHello, ContentUpdated}],
       [rel |-> <<<<"2","0","x","4">>, D1.Month, D1.Day, Seg("a.jsonl")>>, dir |-> FALSE,
        contents |-> {ContentUpdated}],
       [rel |-> <<Seg("a.jsonl")>>, dir |-> FALSE,
        contents |-> {ContentUpdated}] >>

TreeIndex == 1..Len(TreeOrder)

Absent == [exists |-> FALSE]

\* the trees of at most n entries taken from TreeOrder[i..]: for each entry
\* whether it is there and, if so, what it holds
RECURSIVE TreesFrom(_, _)
TreesFrom(i, n) ==
    IF i > Len(TreeOrder) THEN {<<>>}
    ELSE {<<Absent>> \o t : t \in TreesFrom(i + 1, n)}
         \cup (IF n = 0 THEN {}
               ELSE {<<File(c, 1)>> \o t :
                       c \in TreeOrder[i].contents, t \in TreesFrom(i + 1, n - 1)})

\* trees of at most MaxTree entries
Trees == TreesFrom(1, MaxTree)

\* filepath.WalkDir from entry i on: gone are the entries removed since
\* their directory was read, unreadable the files that cannot be opened
RECURSIVE WalkTree(_, _, _, _)
WalkTree(i, gone, unreadable, w) ==
    IF i > Len(TreeOrder) THEN [err |-> NilErr, w |-> w]
    ELSE IF ~disk[i].exists THEN WalkTree(i + 1, gone, unreadable, w)
    ELSE LET e == TreeOrder[i]
             r == walkFn(e.rel, e.dir, e.rel, IF i \in gone THEN Absent ELSE disk[i],
                         i \notin unreadable, w)
         IN  IF r.err # NilErr THEN r ELSE WalkTree(i + 1, gone, unreadable, r.w)

InitTree ==
    /\ baseDir = "/sessions"
    /\ trimUserRequestEnabled = TRUE
    /\ disk \in Trees
    /\ diskOps = 0
    /\ byDate = EmptyMap /\ byName = EmptyMap /\ byCwd = EmptyMap
    /\ updated = 0
    /\ walk = NoWalk
    /\ files = EmptyMap
    /\ ordered = <<>>
    /\ rf = NoRf
    /\ pc = "refresh"
    /\ cycle = 0
    /\ lastErr = NoErr
    /\ hist = NoHist
    /\ view = NoView
    /\ reader = NoReader
    /\ mu = NoLock

\* a whole Refresh of the tree; at most one entry is removed and at most
\* one file made unreadable while it runs
RefreshTree ==
    /\ pc = "refresh"
    /\ \E statOk, walkOk \in BOOLEAN :
       \E gone, unreadable \in {T \in SUBSET {i \in TreeIndex : disk[i].exists} :
                                   Cardinality(T) <= 1} :
         LET r   == WalkTree(1, gone, unreadable,
                             [pos |-> 1, listed |-> {}, byDate |-> EmptyMap,
                              byName |-> EmptyMap, byCwd |-> EmptyMap])
             err == IF ~statOk THEN Err("stat")
                    ELSE IF ~walkOk THEN Err("walk")
                    ELSE r.err
             res == RefreshResult(err, r.w)
         IN  /\ byDate'  = res[1]
             /\ byName'  = res[2]
             /\ byCwd'   = res[3]
             /\ updated' = res[4]
             /\ lastErr' = [op |-> "Refresh", err |-> err]
             /\ walk' = [pos |-> 0, gone |-> gone, unreadable |-> unreadable]
    /\ pc' = "wait"
    /\ UNCHANGED <<baseDir, trimUserRequestEnabled, disk, diskOps, files,
                   ordered, rf, cycle, hist, view, reader, mu>>

\* one call of Cwds and one of CwdCounts, each under idx.mu.RLock
TreeCall ==
    /\ reader.op = "none"
    /\ CanReadScanner
    /\ pc = "wait"
    /\ reader' = [op |-> "Cwds", keys |-> Cwds, counts |-> CwdCounts]
    /\ ReaderFrame

NextTree == RefreshTree \/ TreeCall

SpecTree == InitTree /\ [][NextTree]_vars

----------------------------------------------------------------------------
(* The full parse as a function of the file: session files of a few lines  *)
(* of every kind, and the file of TestParseSession                         *)

\* the lines a session file is made of
LineKinds ==
    { MetaLine("abc", "/w"),
      MetaLine("xyz", ""),
      BadPayload("session_meta"),
      Msg("user", <<"n">>),
      Msg("user", <<"x","#"," ","k","#","z">>),
      Msg("user", <<"x","#"," ">>),
      Msg("user", <<" ">>),
      Msg("assistant", <<"o","#","k">>),
      Msg("system", <<"s">>),
      Reasoning(<<"R","#","e">>),
      Reasoning(<<>>),
      ToolCall,
      [Msg("user", <<"e">>) EXCEPT !.type = "event_msg"],
      NotJSON,
      BadPayload("response_item") }

\* the file TestParseSession writes, with the seconds of its timestamps
ContentTest ==
    << At(MetaLine("abc", "/tmp"), 0),
       At(Msg("user", <<"C","t","x">>), 1),
       At(Msg("user", <<"H","i","\n","\n","#","\n","O","n","l","y">>), 1),
       At(ToolCall, 2),
       At([ToolCall EXCEPT !.ptype = "function_call_output"], 3),
       At(Reasoning(<<"R","e","a","s","o","n">>), 4),
       At(Msg("user", <<"E","a","r","l","i","e","r">>), 5),
       At(Msg("user", <<"L","a","t","e","r">>), 6),
       At(EventMsg, 5),
       NotJSON >>

\* the file TestParseSessionDirectFormat writes: a flat header with id and
\* timestamp, a state record, a user message with an environment context
\* that names /tmp, an assistant message and a reasoning record
ContentDirect ==
    << FlatMeta("xyz", "", 1),
       FlatMeta("", "", 0),
       FlatMsg("user", <<CwdMarker, "/tmp">>),
       FlatMsg("assistant", <<"H","e","l","l","o">>),
       FlatReasoning(<<"R","e","a","s","o","n">>) >>

\* the file of the lines f, the i-th written at time i
Stamped(f) == [i \in 1..Len(f) |-> At(f[i], i)]

ParsePath == P(D1, "a.jsonl")
ParseLines == disk[ParsePath].lines
ParseFile ==
    [Date |-> D1, Name |-> "a.jsonl", Path |-> ParsePath, Size |-> FileSize(ParseLines),
     ModTime |-> disk[ParsePath].modTime, Meta |-> ParseSessionMeta(ParseLines)]

InitParse ==
    /\ baseDir = "/sessions"
    /\ trimUserRequestEnabled \in BOOLEAN
    /\ \/ disk = [p \in {ParsePath} |-> File(ContentTest, 1)]
       \/ disk = [p \in {ParsePath} |-> File(ContentDirect, 1)]
       \/ \E n \in 0..MaxLines : \E f \in [1..n -> LineKinds] :
            disk = [p \in {ParsePath} |-> File(Stamped(f), 1)]
    /\ diskOps = 0
    /\ byDate = EmptyMap /\ byName = EmptyMap /\ byCwd = EmptyMap
    /\ updated = 0
    /\ walk = NoWalk
    /\ files = EmptyMap
    /\ ordered = <<>>
    /\ rf = NoRf
    /\ pc = "wait"
    /\ cycle = 0
    /\ lastErr = NoErr
    /\ hist = NoHist
    /\ view = NoView
    /\ reader = NoReader
    /\ mu = NoLock

\* one call of ParseSession: os.Open or a read can fail
ParseCall ==
    /\ reader.op = "none"
    /\ \E ioOk \in BOOLEAN :
         reader' = IF ioOk
                   THEN [op |-> "ParseSession", err |-> NilErr,
                         session |-> ParseSession(ParseLines, trimUserRequestEnabled)]
                   ELSE [op |-> "ParseSession", err |-> OpenErr(ParsePath)]
    /\ ReaderFrame

\* buildEntries after a ParseSession that returned no error
BuildCall ==
    /\ reader.op = "ParseSession"
    /\ reader.err = NilErr
    /\ reader' = [op |-> "buildEntries", err |-> NilErr, session |-> reader.session,
                  entries |-> entriesLoop(ParseFile, reader.session.Items, 1)]
    /\ ReaderFrame

NextParse == ParseCall \/ BuildCall

SpecParse == InitParse /\ [][NextParse]_vars

----------------------------------------------------------------------------
(* Callers that write to what a scanner read returned *)

\* SessionFile{}
ZeroFile ==
    LET zero == [Year |-> <<>>, Month |-> <<>>, Day |-> <<>>]
    IN  [Date |-> zero, Name |-> "", Path |-> P(zero, ""), Size |-> 0, ModTime |-> 0,
         Meta |-> NilMeta]

\* a read that returns the slice of the published map itself
sharesBackingArray == TRUE

\* lines 179-181, 211-213: out is made anew and the files are copied into
\* it, so out and the published slice have different backing arrays
sharesBacking == FALSE

\* one call of SessionsByDate, SessionsByCwd or CwdCounts, under idx.mu.RLock;
\* snap is the published snapshot it read
ScannerRead ==
    /\ reader.op = "none"
    /\ CanReadScanner
    /\ \/ \E d \in {D1, D2} :
            reader' = [op |-> "SessionsByDate", key |-> d, orig |-> SessionsByDate(d),
                       out |-> SessionsByDate(d), shared |-> sharesBacking,
                       edited |-> FALSE, snap |-> ScannerSnapshot]
       \/ \E c \in {"", "/w"} :
            reader' = [op |-> "SessionsByCwd", key |-> NormalizeCwd(c),
                       orig |-> SessionsByCwd(c), out |-> SessionsByCwd(c),
                       shared |-> sharesBacking, edited |-> FALSE,
                       snap |-> ScannerSnapshot]
       \/ reader' = [op |-> "CwdCounts", key |-> "", orig |-> CwdCounts,
                     out |-> CwdCounts, shared |-> FALSE, edited |-> FALSE,
                     snap |-> ScannerSnapshot]
    /\ ReaderFrame

\* what a caller can make of a slice: reverse it, overwrite its first
\* element, cut its last element off
ListEdits(l) ==
    (IF Len(l) >= 2 THEN {[i \in 1..Len(l) |-> l[Len(l) + 1 - i]]} ELSE {})
    \cup (IF Len(l) >= 1 THEN {[l EXCEPT ![1] = ZeroFile], SubSeq(l, 1, Len(l) - 1)}
          ELSE {})

\* what a caller can make of a map of counts: overwrite a count, delete a key
MapEdits(m) ==
    {[m EXCEPT ![c] = 0] : c \in DOMAIN m}
    \cup {[x \in DOMAIN m \ {c} |-> m[x]] : c \in DOMAIN m}

\* writes to the elements of a slice reach every slice of the same backing
\* array; a cut changes the caller's slice header only
InPlace(m, key, new) ==
    IF key \in DOMAIN m /\ Len(new) = Len(m[key]) THEN [m EXCEPT ![key] = new] ELSE m

\* the caller writes to the value the read returned
CallerEdit ==
    /\ reader.op \in {"SessionsByDate", "SessionsByCwd", "CwdCounts"}
    /\ ~reader.edited
    /\ \E new \in IF reader.op = "CwdCounts" THEN MapEdits(reader.out)
                   ELSE ListEdits(reader.out) :
         /\ reader' = [reader EXCEPT !.out = new, !.edited = TRUE]
         /\ byDate' = IF reader.shared /\ reader.op = "SessionsByDate"
                          /\ reader.snap = ScannerSnapshot
                       THEN InPlace(byDate, reader.key, new) ELSE byDate
         /\ byCwd'  = IF reader.shared /\ reader.op = "SessionsByCwd"
                          /\ reader.snap = ScannerSnapshot
                       THEN InPlace(byCwd, reader.key, new) ELSE byCwd
    /\ UNCHANGED <<baseDir, trimUserRequestEnabled, disk, diskOps, byName, updated,
                   walk, files, ordered, rf, pc, cycle, lastErr, hist, view, mu>>

\* two sessions of one date and of no known working directory, one of
\* another date
CopyDisk ==
    [p \in Paths |-> IF p.Name = "notes.txt" THEN File(<<NotJSON>>, 1)
                     ELSE IF p = P(D1, "a.jsonl") THEN File(ContentHello, 1)
                     ELSE IF p = P(D1, "b.jsonl") THEN File(ContentRequest, 2)
                     ELSE File(ContentUpdated, 1)]

InitCopy ==
    /\ baseDir = "/sessions"
    /\ trimUserRequestEnabled = TRUE
    /\ disk = CopyDisk
    /\ diskOps = 0
    /\ byDate = EmptyMap /\ byName = EmptyMap /\ byCwd = EmptyMap
    /\ updated = 0
    /\ walk = NoWalk
    /\ files = EmptyMap
    /\ ordered = <<>>
    /\ rf = NoRf
    /\ pc = "refresh"
    /\ cycle = 0
    /\ lastErr = NoErr
    /\ hist = NoHist
    /\ view = NoView
    /\ reader = NoReader
    /\ mu = NoLock

NextCopy ==
    \/ RefreshBegin
    \/ WalkStep
    \/ RefreshLock
    \/ RefreshPublish
    \/ RefreshFromBegin
    \/ ParseStep
    \/ RefreshFromLock
    \/ RefreshFromPublish
    \/ Tick
    \/ ScannerRead
    \/ CallerEdit

SpecCopy == InitCopy /\ [][NextCopy]_vars

----------------------------------------------------------------------------
(* Properties *)

DateFiles == UNION {Range(byDate[d]) : d \in DOMAIN byDate}
CwdSlots  == UNION {{<<c, j>> : j \in 1..Len(byCwd[c])} : c \in DOMAIN byCwd}

\* C1: a Refresh that returned an error left the published snapshot (the three
\* maps and LastUpdated) exactly as it was when the call started
RefreshAllOrNothing ==
    (lastErr.op = "Refresh" /\ lastErr.err # NilErr) => ScannerSnapshot = hist.scanPre

\* a walk failed after an earlier refresh had published files
RefreshFailedAfterPublish ==
    /\ lastErr.op = "Refresh"
    /\ lastErr.err.kind \in {"walk", "info"}
    /\ pc = "wait"
    /\ DOMAIN byDate # {}
    /\ updated # 0

\* C2: the three published maps describe the same files: a file is in its
\* date's list iff it is in the name map under (date, name) iff it is in the
\* list of exactly one working directory, and no path is listed twice
SnapshotMapsAgree ==
    /\ \A d \in DOMAIN byDate : \A i \in 1..Len(byDate[d]) :
         LET f == byDate[d][i] IN
           /\ f.Date = d
           /\ LookupOk(d, FileName(f.Name))
           /\ Lookup(d, FileName(f.Name)) = f
           /\ Cardinality({s \in CwdSlots : byCwd[s[1]][s[2]] = f}) = 1
           /\ \A j \in 1..Len(byDate[d]) : byDate[d][j].Path = f.Path => j = i
    /\ \A k \in DOMAIN byName :
         /\ byName[k] \in Range(SessionsByDate(byName[k].Date))
         /\ k = NameKey(byName[k].Date, FileName(byName[k].Name))
    /\ \A s \in CwdSlots :
         /\ byCwd[s[1]][s[2]] \in DateFiles
         /\ s[1] = CwdForFile(byCwd[s[1]][s[2]])
         /\ \A t \in CwdSlots : byCwd[t[1]][t[2]].Path = byCwd[s[1]][s[2]].Path => t = s

\* a refresh is half-way through its walk while readers see two dates and
\* two working directories from the previous one
ReadDuringWalk ==
    /\ pc = "walk"
    /\ walk.pos > 1
    /\ Cardinality(DOMAIN byDate) = 2
    /\ Cardinality(DOMAIN byCwd) = 2
    /\ walk.byName # EmptyMap
    /\ walk.byName # byName

\* C3: a finished index page lists every date with the file count of the
\* snapshot its date list came from, and its per-directory counts add up to
\* its per-date counts
IndexViewOneSnapshot ==
    view.pc = "done" =>
      /\ \A i \in 1..Len(view.dates) :
           view.counts[i] = Len(MapSlice(view.snap[1], view.dates[i]))
      /\ SetSum(view.cwdCounts, DOMAIN view.cwdCounts) = SeqSum(view.counts)

\* what the running or last RefreshFrom started from
Pre       == hist.searchPre[1]
UsedFiles == UNION {Range(hist.scanUsed[1][d]) : d \in DOMAIN hist.scanUsed[1]}
UsedPaths == {f.Path : f \in UsedFiles}
CacheHit(f) ==
    /\ f.Path \in DOMAIN Pre
    /\ Pre[f.Path].size = f.Size
    /\ Pre[f.Path].modTime = f.ModTime
\* the cycle's RefreshFrom has returned and the next cycle has not begun
RfIdle == pc = "wait" /\ lastErr.op = "RefreshFrom"

\* the entries of a list that belong to file f
EntriesOf(list, f) ==
    SelectSeq(list, LAMBDA e : e.date = DateString(f.Date) /\ e.file = f.Name)
Contains(text, sub) == \E i \in 1..(Len(text) + 1) : HasPrefixAt(text, sub, i)
Queries == {<<"h","i">>, <<"H","I">>, <<"u","p">>, <<"o","k">>, <<"r","e">>}

\* C4: a file whose (size, modtime) in the consumed snapshot equals its cached
\* record is not parsed by RefreshFrom, and its record is published unchanged
UnchangedFileNotReparsed ==
    \A f \in UsedFiles :
      CacheHit(f) =>
        /\ f.Path \notin hist.parsed \cup hist.failed
        /\ RfIdle => (f.Path \in DOMAIN files /\ files[f.Path] = Pre[f.Path])

\* the second RefreshFrom reused the record of an unchanged file and parsed
\* another one
CacheHitBesideParse ==
    /\ pc = "wait" /\ cycle >= 1 /\ lastErr.op = "RefreshFrom"
    /\ hist.parsed # {}
    /\ \E f \in UsedFiles :
         CacheHit(f) /\ Pre[f.Path].entries # <<>>

\* C5: a file that was reparsed with success has exactly the entries of the
\* new parse, in the cache, in the flattened list and in Search
ReparsedFileReplaced ==
    RfIdle =>
      \A f \in UsedFiles :
        f.Path \in hist.parsed =>
          LET new == buildEntries(f, hist.lines[f.Path], trimUserRequestEnabled) IN
            /\ f.Path \in DOMAIN files
            /\ files[f.Path] = [size |-> f.Size, modTime |-> f.ModTime, entries |-> new]
            /\ EntriesOf(ordered, f) = new
            /\ \A q \in Queries :
                 LET res == Search(q, 10) IN
                   Len(EntriesOf([i \in 1..Len(res) |->
                                    [date |-> res[i].Date, file |-> res[i].File]], f))
                     = Len(SelectSeq(new, LAMBDA e : Contains(e.lower, ToLower(q))))

\* a file indexed with "Hi" was overwritten without it and reparsed: "hi" no
\* longer finds the file, "up" does
OverwrittenFileReparsed ==
    /\ pc = "wait" /\ lastErr.op = "RefreshFrom"
    /\ \E f \in UsedFiles :
         /\ f.Path \in hist.parsed
         /\ f.Path \in DOMAIN Pre
         /\ \E e \in Range(Pre[f.Path].entries) : Contains(e.lower, <<"h","i">>)
         /\ EntriesOf(ordered, f) # <<>>
         /\ \A e \in Range(EntriesOf(ordered, f)) : ~Contains(e.lower, <<"h","i">>)
         /\ \E e \in Range(EntriesOf(ordered, f)) : Contains(e.lower, <<"u","p">>)

\* C6: after RefreshFrom the cached paths are paths of the snapshot it
\* consumed, which is the one the scanner still publishes when the cycle is
\* over, and every entry of the flattened list belongs to a file of it
CacheWithinSnapshot ==
    RfIdle =>
      /\ DOMAIN files \subseteq UsedPaths
      /\ \A i \in 1..Len(ordered) :
           \E f \in UsedFiles : EntriesOf(<<ordered[i]>>, f) # <<>>
      /\ pc = "wait" => DOMAIN files \subseteq {f.Path : f \in DateFiles}

\* a file that was searchable is gone from the cache while another one stays
DeletedFileDropped ==
    /\ pc = "wait" /\ lastErr.op = "RefreshFrom"
    /\ files # EmptyMap
    /\ \E p \in DOMAIN Pre : p \notin DOMAIN files /\ Pre[p].entries # <<>>

\* C7: when the parse of a file fails and the previous cache held a record of
\* it, that record is in the new cache and its entries are still found
FailedParseKeepsRecord ==
    RfIdle =>
      \A f \in UsedFiles :
        (f.Path \in hist.failed /\ f.Path \in DOMAIN Pre) =>
          /\ f.Path \in DOMAIN files
          /\ files[f.Path] = Pre[f.Path]
          /\ EntriesOf(ordered, f) = Pre[f.Path].entries
          /\ \A e \in Range(Pre[f.Path].entries) :
               \E r \in Range(Search(e.content, maxLimit)) :
                 r.Date = e.date /\ r.File = e.file /\ r.Line = e.line

\* the reparse of a changed file failed and its old entries were kept
ChangedFileParseFailed ==
    /\ pc = "wait" /\ lastErr.op = "RefreshFrom"
    /\ \E f \in UsedFiles :
         /\ f.Path \in hist.failed
         /\ f.Path \in DOMAIN Pre
         /\ ~CacheHit(f)
         /\ Pre[f.Path].entries # <<>>

\* the consumed snapshot's files in processing order: dates descending
UsedOrder ==
    LET dates == SortDates(DOMAIN hist.scanUsed[1])
    IN  Flatten([k \in 1..Len(dates) |-> hist.scanUsed[1][dates[k]]])
PosIn(seq, path) == CHOOSE i \in 1..Len(seq) : seq[i].Path = path
FirstFailed ==
    CHOOSE p \in hist.failed :
      \A q \in hist.failed : PosIn(UsedOrder, p) <= PosIn(UsedOrder, q)

\* C8: RefreshFrom tries every new or changed file whatever fails, publishes
\* the parsed ones and the carried-over ones, and returns the error of the
\* first failing file in processing order, nil iff none failed
BestEffortFullPass ==
    RfIdle =>
      LET toParse == {f \in UsedFiles : ~CacheHit(f)} IN
        /\ hist.parsed \cup hist.failed = {f.Path : f \in toParse}
        /\ hist.parsed \cap hist.failed = {}
        /\ \A f \in toParse :
             f.Path \in hist.parsed =>
               /\ f.Path \in DOMAIN files
               /\ files[f.Path].size = f.Size /\ files[f.Path].modTime = f.ModTime
        /\ DOMAIN files = {f.Path : f \in UsedFiles \ toParse} \cup hist.parsed
                            \cup (hist.failed \cap DOMAIN Pre)
        /\ lastErr.op = "RefreshFrom" =>
             /\ lastErr.err = NilErr <=> hist.failed = {}
             /\ hist.failed # {} => lastErr.err = OpenErr(FirstFailed)

\* one file failed and a file after it in processing order was still parsed
\* and published, with the error returned
ParsedAfterFailure ==
    /\ pc = "wait" /\ lastErr.op = "RefreshFrom" /\ lastErr.err # NilErr
    /\ \E p \in hist.failed, q \in hist.parsed :
         /\ PosIn(UsedOrder, p) < PosIn(UsedOrder, q)
         /\ q \in DOMAIN files /\ files[q].entries # <<>>

\* C9 as stated: every record of the published cache stores the (size,
\* modtime) of its file in the snapshot the refresh consumed
CacheMatchesSnapshot ==
    RfIdle =>
      \A p \in DOMAIN files :
        \E f \in UsedFiles :
          f.Path = p /\ files[p].size = f.Size /\ files[p].modTime = f.ModTime

\* C9 amended: every record of the published cache stores the (size, modtime)
\* of its file in the consumed snapshot, with the entries of this refresh's
\* parse if the file was parsed, unless the file's parse failed in this
\* refresh: then the record is the previous cache's record, unchanged
CacheMatchesSnapshotUnlessFailed ==
    RfIdle =>
      \A p \in DOMAIN files :
        \E f \in UsedFiles :
          /\ f.Path = p
          /\ IF p \in hist.failed
             THEN p \in DOMAIN Pre /\ files[p] = Pre[p]
             ELSE /\ files[p].size = f.Size /\ files[p].modTime = f.ModTime
                  /\ p \in hist.parsed =>
                       files[p].entries =
                         buildEntries(f, hist.lines[p], trimUserRequestEnabled)
                  /\ p \notin hist.parsed => files[p] = Pre[p]

\* the published cache holds a retained record whose pair is stale, a record
\* carried over as a match and nothing else
StaleRecordRetained ==
    /\ RfIdle
    /\ \E p \in DOMAIN files, f \in UsedFiles :
         /\ f.Path = p /\ p \in hist.failed
         /\ <<files[p].size, files[p].modTime>> # <<f.Size, f.ModTime>>
    /\ \E f \in UsedFiles : CacheHit(f) /\ f.Path \notin hist.failed

\* the scanner's canonical order: date descending, then modification time
\* descending, then name ascending
DateNum(d) == 10000 * Atoi(d.Year) + 100 * Atoi(d.Month) + Atoi(d.Day)
FileBefore(a, b) ==
    \/ DateNum(a.Date) > DateNum(b.Date)
    \/ /\ a.Date = b.Date
       /\ \/ a.ModTime > b.ModTime
          \/ a.ModTime = b.ModTime /\ NameLess(a.Name, b.Name)
CachedEntries(f) == IF f.Path \in DOMAIN files THEN files[f.Path].entries ELSE <<>>

\* C10: after RefreshFrom the flattened list is the concatenation, in the
\* scanner's canonical order of the consumed snapshot (which Dates and
\* SessionsByDate still return when the cycle is over), of the entries of
\* each cached file
OrderedIsCanonical ==
    RfIdle =>
      LET dates == Dates
          list  == Flatten([k \in 1..Len(dates) |-> SessionsByDate(dates[k])])
      IN  /\ \A i, j \in 1..Len(list) : i < j => FileBefore(list[i], list[j])
          /\ Range(list) = UsedFiles
          /\ ordered = Flatten([k \in 1..Len(list) |-> CachedEntries(list[k])])

\* the limit the spec gives a call: 50 for a non-positive one, at most 200
EffectiveLimit(l) == IF l <= 0 THEN 50 ELSE IF l > 200 THEN 200 ELSE l
\* the entries of a list whose content contains the trimmed query, whatever
\* the case
Matches(list, q) ==
    SelectSeq(list, LAMBDA e : Contains(ToLower(e.content), ToLower(TrimSpace(q))))
ResultOf(e) ==
    [Date |-> e.date, Path |-> e.path, File |-> e.file, Line |-> e.line, Role |-> e.role]

\* C11: a Search with a non-empty trimmed query returns the first
\* min(effective limit, number of matches) matching entries of the flattened
\* list, in list order, each with its entry's date, date path, file name,
\* line number and role
SearchReturnsFirstMatches ==
    (reader.op = "Search" /\ TrimSpace(reader.query) # <<>>) =>
      LET m == Matches(reader.list, reader.query)
          k == Min(EffectiveLimit(reader.limit), Len(m))
      IN  /\ Len(reader.results) = k
          /\ \A i \in 1..k : reader.results[i] = ResultOf(m[i])

\* a search cut at two results passed over an entry that does not match and
\* left later matches out
SearchCutAfterSkipping ==
    /\ reader.op = "Search" /\ reader.limit = 2
    /\ Len(reader.results) = 2
    /\ Len(Matches(reader.list, reader.query)) > 2
    /\ reader.results[1].File = reader.results[2].File
    /\ reader.results[2].Line > reader.results[1].Line + 1

\* C12: a query that is empty once trimmed finds nothing; a non-positive
\* limit behaves as 50 and a limit above 200 as 200; a call returns at most
\* its effective limit of results, and never more than 200
SearchLimitRules ==
    reader.op = "Search" =>
      /\ TrimSpace(reader.query) = <<>> => reader.results = <<>>
      /\ Len(reader.results) <= EffectiveLimit(reader.limit)
      /\ Len(reader.results) <= 200
      /\ (reader.limit <= 0 /\ ordered = reader.list) =>
           reader.results = Search(reader.query, 50)
      /\ (reader.limit > 200 /\ ordered = reader.list) =>
           reader.results = Search(reader.query, 200)

\* a call with limit 201 on a list with more than 200 matches got 200 results
SearchClampedAtMax ==
    /\ reader.op = "Search" /\ reader.limit = 201
    /\ Len(Matches(reader.list, reader.query)) > 200
    /\ Len(reader.results) = 200
    /\ ordered = reader.list

\* unicode.ToUpper of one character, and the two case changes of a text
UpperChar(c) ==
    IF c = "long-s" THEN "S"
    ELSE IF c \in Range(LowerLetters) THEN UpperLetters[LetterIndex(c, LowerLetters)]
    ELSE c
ToUpper(s) == [i \in 1..Len(s) |-> UpperChar(s[i])]
CaseChanges(s) == {ToUpper(s), ToLower(s)}
\* the list buildEntries would have produced had every content been t(content)
Recased(list, t(_)) ==
    [i \in 1..Len(list) |->
       [list[i] EXCEPT !.content = t(list[i].content), !.lower = ToLower(t(list[i].content))]]
\* what Search returns on another list
SearchIn(list, query, limit) ==
    IF TrimSpace(query) = <<>> THEN <<>>
    ELSE searchLoop(list, 1, ToLower(TrimSpace(query)), EffectiveLimit(limit))
\* an entry matches when a Search that is not cut by its limit returns it
MatchedIffLowerContains ==
    Len(reader.results) < EffectiveLimit(reader.limit) =>
      Range(reader.results) =
        {ResultOf(e) : e \in {x \in Range(reader.list) :
            /\ TrimSpace(reader.query) # <<>>
            /\ Contains(ToLower(x.content), ToLower(TrimSpace(reader.query)))}}

\* C13 as stated: an entry matches iff the lower-cased trimmed query occurs in
\* its lower-cased content, and putting the query or the indexed contents in
\* upper or in lower case never changes the results
SearchCaseInsensitive ==
    (reader.op = "Search" /\ ordered = reader.list) =>
      /\ MatchedIffLowerContains
      /\ \A q2 \in CaseChanges(reader.query) :
           Search(q2, reader.limit) = reader.results
      /\ SearchIn(Recased(reader.list, ToUpper), reader.query, reader.limit)
           = reader.results
      /\ SearchIn(Recased(reader.list, ToLower), reader.query, reader.limit)
           = reader.results

\* C13 amended: an entry matches iff the lower-cased trimmed query occurs in
\* its lower-cased content, and a change of case of the query or of the
\* indexed contents that keeps their lower-case form (any change of case of
\* ASCII letters does) never changes the results
SearchCaseInsensitiveLower ==
    (reader.op = "Search" /\ ordered = reader.list) =>
      /\ MatchedIffLowerContains
      /\ \A q2 \in CaseChanges(reader.query) :
           ToLower(q2) = ToLower(reader.query) =>
             Search(q2, reader.limit) = reader.results
      /\ \A q2 \in SearchQueries :
           ToLower(q2) = ToLower(reader.query) =>
             Search(q2, reader.limit) = reader.results
      /\ (\A e \in Range(reader.list) : ToLower(ToUpper(e.content)) = e.lower) =>
           SearchIn(Recased(reader.list, ToUpper), reader.query, reader.limit)
             = reader.results
      /\ SearchIn(Recased(reader.list, ToLower), reader.query, reader.limit)
           = reader.results

\* an upper-case query with blanks around it found entries written "Hi" and
\* "hIp"
UpperQueryFoundMixedCase ==
    /\ reader.op = "Search" /\ ordered = reader.list
    /\ reader.query = <<" ","H","I"," ">>
    /\ \E e1, e2 \in Range(reader.list) :
         /\ e1.content = <<"H","i">> /\ e2.content = <<"h","I","p">>
         /\ ResultOf(e1) \in Range(reader.results)
         /\ ResultOf(e2) \in Range(reader.results)

\* C14: while Refresh walks the tree or RefreshFrom parses, neither mutex is
\* held exclusively, so Search and the scanner reads are granted their
\* shared lock, and what they read is what was published before the running
\* refresh began; each mutex is held exclusively only by its own swap
NoExclusiveLockWhileWorking ==
    /\ pc \in {"walk", "refreshFrom", "parse"} => (CanReadScanner /\ CanSearch)
    /\ pc = "swap" => CanSearch
    /\ pc = "swapFrom" => CanReadScanner
    /\ pc \in {"parse", "swapFrom"} => SearchSnapshot = hist.searchPre
    /\ pc \in {"walk", "swap"} => ScannerSnapshot = hist.scanPre

\* RefreshFrom is parsing a file its cache does not hold as it is, while a
\* Search may run and finds an entry of the list published a cycle ago
SearchableWhileParsing ==
    /\ pc = "parse" /\ cycle >= 1
    /\ rf.i <= Len(rf.toParse)
    /\ CanSearch
    /\ Search(<<"h","i">>, 10) # <<>>
    /\ DOMAIN byDate # {} /\ CanReadScanner

\* C15: RefreshFrom runs only after the Refresh of the same cycle has
\* returned (without error, or at startup), no walk is under way while a
\* RefreshFrom is, no cycle starts before the previous one is over, and the
\* scanner snapshot RefreshFrom reads for its ordered list is the one it read
\* to decide what to parse
RefreshesSerialized ==
    /\ pc \in {"refreshFrom", "parse", "swapFrom"} =>
         /\ lastErr.op = "Refresh"
         /\ lastErr.err = NilErr \/ cycle = 0
         /\ walk = NoWalk
    /\ pc \in {"refresh", "walk", "swap"} => (rf = NoRf /\ lastErr = NoErr)
    /\ pc \in {"parse", "swapFrom"} => ScannerSnapshot = hist.scanUsed
    /\ pc = "swapFrom" =>
         /\ Dates = rf.dates
         /\ Flatten([k \in 1..Len(rf.dates) |-> SessionsByDate(rf.dates[k])]) = rf.files

\* a rescan has changed the snapshot, its RefreshFrom has parsed and is about
\* to read the snapshot again, and the tree has been written to meanwhile
SecondReadAfterRescan ==
    /\ pc = "swapFrom" /\ cycle >= 1
    /\ rf.toParse # <<>>
    /\ hist.scanPre # ScannerSnapshot
    /\ \E p \in SessionPaths :
         /\ disk[p].exists
         /\ \A k \in 1..Len(rf.files) : rf.files[k].Path # p

\* the session files of the tree: WalkDir lists them and the walk function
\* keeps them
SessionsOnDisk == {q \in SessionPaths : disk[q].exists}

\* the cycle is over, its Refresh and its RefreshFrom returned nil, and the
\* tree was not written since its Refresh began
CleanCycleDone ==
    /\ pc = "wait"
    /\ lastErr = [op |-> "RefreshFrom", err |-> NilErr]
    /\ updated = Now
    /\ ~hist.written

\* C16: whatever failed in earlier cycles, a cycle whose Refresh and
\* RefreshFrom both return nil leaves snapshots that hold exactly the session
\* files of the tree, each with its size and modification time, which is
\* what the cache goes by; the cached entries of each are those of a parse
\* of the file, in the flattened list, and those of the content on disk when
\* the tree was never written or the file was parsed in this cycle
CleanCycleCatchesUp ==
    CleanCycleDone =>
      /\ DOMAIN byName = {NameKey(q.Date, FileName(q.Name)) : q \in SessionsOnDisk}
      /\ DOMAIN files = SessionsOnDisk
      /\ \A q \in SessionsOnDisk :
           LET f == Lookup(q.Date, FileName(q.Name))
               fresh == buildEntries(f, disk[q].lines, trimUserRequestEnabled)
           IN  /\ f.Path = q
               /\ f.Size = FileSize(disk[q].lines)
               /\ f.ModTime = disk[q].modTime
               /\ f \in Range(SessionsByDate(q.Date))
               /\ files[q].size = f.Size
               /\ files[q].modTime = f.ModTime
               /\ \E lines \in Contents :
                    files[q].entries = buildEntries(f, lines, trimUserRequestEnabled)
               /\ (diskOps = 0 \/ q \in hist.parsed) => files[q].entries = fresh
               /\ Range(files[q].entries) \subseteq Range(ordered)

\* the tree was never written, yet the rescan after startup had a file to
\* parse: startup failed on it, and this cycle caught up without error
CaughtUpAfterFailure ==
    /\ CleanCycleDone
    /\ cycle = 1 /\ diskOps = 0
    /\ hist.parsed # {}
    /\ Search(<<"h","i">>, 10) # <<>>

\* C17: Dates returns every date of the published snapshot once, each
\* greater than the next when year, month and day are compared as numbers
DatesStrictlyDescending ==
    LET dates == Dates IN
    /\ Range(dates) = DOMAIN byDate
    /\ Len(dates) = Cardinality(DOMAIN byDate)
    /\ \A i, j \in 1..Len(dates) : i < j => DateNum(dates[i]) > DateNum(dates[j])
    /\ reader.op = "Dates" =>
         /\ reader.dates = dates
         /\ \A i \in 1..(Len(reader.dates) - 1) :
              \/ Atoi(reader.dates[i].Year) > Atoi(reader.dates[i + 1].Year)
              \/ /\ reader.dates[i].Year = reader.dates[i + 1].Year
                 /\ \/ Atoi(reader.dates[i].Month) > Atoi(reader.dates[i + 1].Month)
                    \/ /\ reader.dates[i].Month = reader.dates[i + 1].Month
                       /\ Atoi(reader.dates[i].Day) > Atoi(reader.dates[i + 1].Day)

\* after a rescan Dates returned dates of two years, two of them of one
\* year with the later month holding the earlier day
DatesOfTwoYearsReturned ==
    /\ reader.op = "Dates" /\ cycle >= 1
    /\ Len(reader.dates) >= 3
    /\ reader.dates[1].Year # reader.dates[Len(reader.dates)].Year
    /\ \E i \in 1..(Len(reader.dates) - 1) :
         /\ reader.dates[i].Year = reader.dates[i + 1].Year
         /\ Atoi(reader.dates[i].Month) > Atoi(reader.dates[i + 1].Month)
         /\ Atoi(reader.dates[i].Day) < Atoi(reader.dates[i + 1].Day)

\* list[i] is to come before list[j]: later modification time first, the
\* smaller name first among equal modification times
InListOrder(a, b) ==
    \/ a.ModTime > b.ModTime
    \/ a.ModTime = b.ModTime /\ ~NameLess(b.Name, a.Name)

ListOrdered(list) == \A i, j \in 1..Len(list) : i < j => InListOrder(list[i], list[j])

\* C18: SessionsByDate returns the files of a date by modification time
\* descending, and by name ascending among equal modification times
SessionsByDateOrdered ==
    \A d \in {D1, D2} :
      /\ ListOrdered(SessionsByDate(d))
      /\ \A i, j \in 1..Len(SessionsByDate(d)) :
           i # j => SessionsByDate(d)[i].Name # SessionsByDate(d)[j].Name

\* a successful rescan published a date whose later-named file is the more
\* recently modified one: it is returned first, against the walk's order
LaterFileListedFirst ==
    /\ lastErr.op = "RefreshFrom" /\ cycle >= 1 /\ updated = Now
    /\ Len(SessionsByDate(D1)) = 2
    /\ SessionsByDate(D1)[1].Name = "b.jsonl"
    /\ SessionsByDate(D1)[1].ModTime > SessionsByDate(D1)[2].ModTime

\* C19 as stated: SessionsByCwd returns the files of a working directory by
\* modification time descending, and by name ascending among equal
\* modification times, whatever dates they are of
SessionsByCwdOrdered ==
    \A c \in DOMAIN byCwd : ListOrdered(SessionsByCwd(c))

\* the read of the reader, made again now
ReadAgain ==
    IF reader.op = "SessionsByDate" THEN SessionsByDate(reader.key)
    ELSE IF reader.op = "SessionsByCwd" THEN SessionsByCwd(reader.key)
    ELSE CwdCounts

\* C20: whatever a caller writes to the list or map a scanner read returned,
\* the published snapshot stays as it was read until a Refresh replaces it
\* (which moves LastUpdated), and the same read made again returns what it
\* returned before the caller wrote
ReadsAreCopies ==
    (reader.op \in {"SessionsByDate", "SessionsByCwd", "CwdCounts"}
       /\ reader.snap[4] = updated) =>
      /\ ScannerSnapshot = reader.snap
      /\ ReadAgain = reader.orig
      /\ reader.op # "CwdCounts" =>
           \A k \in 1..Len(reader.orig) : reader.orig[k] \in DateFiles

\* a caller has reversed the two files SessionsByDate returned, and the
\* refresh task has gone on without replacing the snapshot
CallerReversedList ==
    /\ reader.op = "SessionsByDate" /\ reader.edited
    /\ Len(reader.orig) = 2
    /\ reader.out = <<reader.orig[2], reader.orig[1]>>
    /\ reader.snap[4] = updated
    /\ pc = "walk" /\ cycle >= 1

\* a DateKey as ParseDate accepts it: digits only, of lengths 4, 2 and 2
ValidDateKey(d) ==
    /\ Len(d.Year) = 4 /\ Len(d.Month) = 2 /\ Len(d.Day) = 2
    /\ \A c \in Range(d.Year) \cup Range(d.Month) \cup Range(d.Day) : c \in DigitChars

\* an entry of a tree that is to be indexed
Qualifying(e) ==
    /\ ~e.dir
    /\ e.rel[Len(e.rel)] \in {Seg(n) : n \in JsonlNames}
    /\ Len(e.rel) = 4
    /\ ValidDateKey([Year |-> e.rel[1], Month |-> e.rel[2], Day |-> e.rel[3]])

RefreshSucceeded == lastErr.op = "Refresh" /\ lastErr.err = NilErr

\* C22: every DateKey of a published snapshot is valid; after a successful
\* Refresh the files of the snapshot (of each of its three maps) are exactly
\* the tree's entries that are no directories, are named *.jsonl, lie four
\* segments deep and lie under three segments that form a valid DateKey;
\* and an entry that fails one of these conditions never makes Refresh fail,
\* even if it is gone when the walk reaches it
SnapshotMembership ==
    /\ \A d \in DOMAIN byDate : ValidDateKey(d)
    /\ \A k \in DOMAIN byName : ValidDateKey(byName[k].Date)
    /\ RefreshSucceeded =>
         \A i \in TreeIndex :
           LET hit(f) == f.Path = TreeOrder[i].rel
               in == disk[i].exists /\ Qualifying(TreeOrder[i])
           IN  /\ (\E f \in DateFiles : hit(f)) <=> in
               /\ (\E k \in DOMAIN byName : hit(byName[k])) <=> in
               /\ (\E c \in CwdSlots : hit(byCwd[c[1]][c[2]])) <=> in
    /\ (lastErr.op = "Refresh" /\ lastErr.err = Err("info")) =>
         \E i \in walk.gone : Qualifying(TreeOrder[i])

\* a Refresh succeeded on a tree of one session and two other entries, one
\* of which was removed before the walk reached it
OnlySessionIndexed ==
    /\ RefreshSucceeded
    /\ Cardinality(DateFiles) = 1
    /\ Cardinality({i \in TreeIndex : disk[i].exists /\ ~Qualifying(TreeOrder[i])}) = 2
    /\ \E i \in walk.gone : ~Qualifying(TreeOrder[i]) /\ ~TreeOrder[i].dir

\* a file that cannot be opened for its header is indexed without a header
UnreadableIndexed ==
    RefreshSucceeded =>
      \A i \in walk.unreadable :
        Qualifying(TreeOrder[i]) =>
          \E f \in DateFiles : f.Path = TreeOrder[i].rel /\ f.Meta = NilMeta

\* C23 as stated: Refresh returns an error only when the root cannot be
\* stat'ed or the walk meets an I/O error of a directory; a failure confined
\* to one qualifying file (header not parsed, file unreadable, stat
\* information unavailable) leaves it successful, the file being indexed
\* without a header when its header could not be read
PerFileProblemsTolerated ==
    /\ lastErr.op = "Refresh" => lastErr.err \in {NilErr, Err("stat"), Err("walk")}
    /\ UnreadableIndexed

\* working directories that are empty or whitespace
BlankCwds == {"", " "}

\* the key a snapshot file is to be counted under, from its header
KeyOfHeader(f) ==
    IF f.Meta = NilMeta THEN "(unknown)"
    ELSE IF f.Meta.Cwd \in BlankCwds THEN "(unknown)"
    ELSE f.Meta.Cwd

\* C24: CwdCounts gives each key the number of snapshot files whose header
\* names that working directory, and the counts add up to the number of
\* indexed files; a file without header, or whose header has an empty or
\* whitespace working directory, is listed under "(unknown)" and under no
\* other key; Cwds returns every key once, ascending in byte order except
\* that "(unknown)" comes last
CwdAggregation ==
    /\ \A key \in DOMAIN CwdCounts :
         CwdCounts[key] = Cardinality({f \in DateFiles : KeyOfHeader(f) = key})
    /\ SetSum(CwdCounts, DOMAIN CwdCounts) = Cardinality(DateFiles)
    /\ \A f \in DateFiles :
         (f.Meta = NilMeta \/ f.Meta.Cwd \in BlankCwds) =>
           \A c \in CwdSlots : byCwd[c[1]][c[2]] = f => c[1] = "(unknown)"
    /\ reader.op = "Cwds" =>
         /\ reader.counts = CwdCounts
         /\ Len(reader.keys) = Cardinality(DOMAIN byCwd)
         /\ Range(reader.keys) = DOMAIN byCwd
         /\ \A i, j \in 1..Len(reader.keys) :
              i < j => /\ reader.keys[i] # "(unknown)"
                       /\ \/ reader.keys[j] = "(unknown)"
                          \/ CwdRank(reader.keys[i]) < CwdRank(reader.keys[j])

\* Cwds returned two working directories and then the sentinel, which lies
\* between them in byte order; two files are counted under the sentinel,
\* one for having no header and one for its whitespace working directory
SentinelListedLast ==
    /\ reader.op = "Cwds"
    /\ \/ reader.keys = <<"$HOME", "/w", "(unknown)">>
       \/ /\ reader.keys = <<"/w", "(unknown)">>
          /\ reader.counts["(unknown)"] = 2
          /\ \E f, g \in DateFiles : f.Meta = NilMeta /\ g.Meta # NilMeta /\ g.Meta.Cwd = " "

\* the items of the lines ParseSession keeps, before they are merged
KeptItems ==
    parseLoop(ParseLines, 1, trimUserRequestEnabled, [Meta |-> NilMeta, Items |-> <<>>]).Items

\* ParseSession returned a session
Parsed == reader.op \in {"ParseSession", "buildEntries"} /\ reader.err = NilErr

\* the last items of the maximal runs of user messages
UserRunEnds(items) ==
    {b \in 1..Len(items) :
       /\ isUserMessage(items[b])
       /\ b = Len(items) \/ ~isUserMessage(items[b + 1])}

\* C25: of every maximal run of consecutive kept user messages, whatever its
\* length, the parsed session holds exactly one entry, which is the last
\* message of the run with its content, line number, timestamp and raw
\* line; the session holds no other user entry, and nothing of the earlier
\* messages of the run
UserRunKeepsLast ==
    Parsed =>
      LET out  == reader.session.Items
          kept == KeptItems
          ends == UserRunEnds(kept)
      IN
        /\ \A b \in ends :
             Cardinality({j \in 1..Len(out) : out[j] = kept[b]}) = 1
        /\ Cardinality({j \in 1..Len(out) : isUserMessage(out[j])})
             = Cardinality(ends)
        /\ \A i \in (1..Len(kept)) \ ends :
             isUserMessage(kept[i]) =>
               \A j \in 1..Len(out) :
                 /\ out[j].Line # kept[i].Line
                 /\ out[j].Raw # kept[i].Raw
                 /\ isUserMessage(out[j]) /\ out[j].Content = kept[i].Content
                      => \E b \in ends : out[j] = kept[b]

\* three user messages of different contents in a row were parsed into the
\* one entry of the third
ThreeUserMessagesOneEntry ==
    /\ Parsed
    /\ Len(KeptItems) = MaxLines
    /\ \A i \in 1..Len(KeptItems) : isUserMessage(KeptItems[i])
    /\ \A i, j \in 1..Len(KeptItems) : i # j => KeptItems[i].Content # KeptItems[j].Content
    /\ Len(reader.session.Items) = 1
    /\ reader.session.Items[1].Line = MaxLines
    /\ reader.session.Items[1].Timestamp = MaxLines
    /\ reader.session.Items[1].Content = KeptItems[MaxLines].Content

ItemKey(item) == <<item.Type, item.Subtype, item.Role>>

\* the first items of the maximal runs of equal keys, and the j-th run
RunStarts(items) ==
    {a \in 1..Len(items) : a = 1 \/ ItemKey(items[a]) # ItemKey(items[a - 1])}
RunStart(items, j) ==
    CHOOSE a \in RunStarts(items) : Cardinality({x \in RunStarts(items) : x <= a}) = j
RunEnd(items, j) ==
    IF j = Cardinality(RunStarts(items)) THEN Len(items) ELSE RunStart(items, j + 1) - 1

\* the non-blank contents of items[lo..hi] with a blank line between them
RECURSIVE JoinContents(_, _, _)
JoinContents(items, lo, hi) ==
    IF lo > hi THEN <<>>
    ELSE LET rest == JoinContents(items, lo + 1, hi) IN
           IF TrimSpace(items[lo].Content) = <<>> THEN rest
           ELSE IF rest = <<>> THEN items[lo].Content
           ELSE items[lo].Content \o <<"\n", "\n">> \o rest

\* C26: the merged list has one entry per maximal run of kept items of
\* equal (type, subtype, role), in the order of the runs: no two adjacent
\* entries have the same key, the j-th entry has the key of the j-th run,
\* merging the merged list again changes nothing; the entry of a run that
\* is not of user messages has the run's non-blank contents joined with a
\* blank line and the line number and timestamp of the run's first item
MergeKeepsRuns ==
    Parsed =>
      LET out == reader.session.Items
          in  == KeptItems
      IN  /\ Len(out) = Cardinality(RunStarts(in))
          /\ \A j \in 1..(Len(out) - 1) : ItemKey(out[j]) # ItemKey(out[j + 1])
          /\ \A j \in 1..Len(out) :
               /\ ItemKey(out[j]) = ItemKey(in[RunStart(in, j)])
               /\ \A i \in RunStart(in, j)..RunEnd(in, j) : ItemKey(in[i]) = ItemKey(out[j])
               /\ ~isUserMessage(out[j]) =>
                    /\ out[j].Content = JoinContents(in, RunStart(in, j), RunEnd(in, j))
                    /\ out[j].Line = in[RunStart(in, j)].Line
                    /\ out[j].Timestamp = in[RunStart(in, j)].Timestamp
          /\ \A i, j \in 1..Len(out) : i < j => out[i].Line < out[j].Line
          /\ mergeConsecutive(out) = out

\* two reasoning items of different contents and then a user message were
\* parsed into two entries, the first with both contents and the first line
TwoReasoningsJoined ==
    /\ Parsed
    /\ Len(KeptItems) = MaxLines
    /\ Len(reader.session.Items) = MaxLines - 1
    /\ KeptItems[1].Subtype = "reasoning" /\ KeptItems[2].Subtype = "reasoning"
    /\ KeptItems[1].Content # KeptItems[2].Content
    /\ isUserMessage(KeptItems[MaxLines])
    /\ reader.session.Items[1].Content =
         KeptItems[1].Content \o <<"\n", "\n">> \o KeptItems[2].Content
    /\ reader.session.Items[1].Line = KeptItems[1].Line

\* the text after the first "#" of s, s itself when it has none
RECURSIVE AfterMarker(_, _)
AfterMarker(s, i) ==
    IF i > Len(s) THEN s
    ELSE IF s[i] = "#" THEN SubSeq(s, i + 1, Len(s))
    ELSE AfterMarker(s, i + 1)

\* the content C27 gives the item of line l
RequestText(l) ==
    IF l.ptype = "message" /\ l.role = "user" /\ trimUserRequestEnabled
    THEN TrimSpace(AfterMarker(TrimSpace(l.text), 1))
    ELSE TrimSpace(l.text)

HasMarker(l) == "#" \in Range(l.text)

\* C27 as stated: the content of a user message with the marker is, when
\* trimming is enabled, the trimmed text after the first marker, whatever
\* that text is; otherwise, and for assistant messages and reasoning, the
\* content of an item with text is its whole text
RequestTrimmedAsStated ==
    Parsed =>
      LET kept == KeptItems IN
      \A i \in 1..Len(kept) :
        TrimSpace(kept[i].Raw.text) # <<>> =>
          kept[i].Content = RequestText(kept[i].Raw)

\* C27, amended: the same, provided the text after the marker is not blank;
\* when nothing but whitespace follows the marker, the content is the
\* pretty-printed payload
RequestTrimmed ==
    Parsed =>
      LET kept == KeptItems IN
      \A i \in 1..Len(kept) :
        LET l == kept[i].Raw IN
          TrimSpace(l.text) # <<>> =>
            /\ RequestText(l) # <<>> => kept[i].Content = RequestText(l)
            /\ RequestText(l) = <<>> =>
                 /\ HasMarker(l) /\ isUserMessage(kept[i]) /\ trimUserRequestEnabled
                 /\ kept[i].Content = <<"{">> \o l.text \o <<"}">>

\* with trimming enabled a user message with two markers was parsed into
\* the text after the first, and an assistant message with a marker into
\* its whole text
RequestCutAtFirstMarker ==
    /\ Parsed
    /\ trimUserRequestEnabled
    /\ \E i, j \in 1..Len(KeptItems) :
         /\ isUserMessage(KeptItems[i])
         /\ KeptItems[i].Raw.text = <<"x","#"," ","k","#","z">>
         /\ KeptItems[i].Content = <<"k","#","z">>
         /\ KeptItems[j].Role = "assistant"
         /\ HasMarker(KeptItems[j].Raw)
         /\ KeptItems[j].Content = KeptItems[j].Raw.text

\* a line that is a user or assistant message or a reasoning item
Displayed(l) ==
    /\ l.type = "response_item"
    /\ \/ l.ptype = "message" /\ l.role \in {"user", "assistant"}
       \/ l.ptype = "reasoning"

Undecodable(l) == l.type = "not-json" \/ ~l.payloadOk

\* positions of the lines that decode, the k-th of them, and the file
\* without the other lines
DecodablePositions == {i \in 1..Len(ParseLines) : ~Undecodable(ParseLines[i])}
DecodablePosition(k) ==
    CHOOSE i \in DecodablePositions : Cardinality({x \in DecodablePositions : x <= i}) = k
DecodableLines ==
    [k \in 1..Cardinality(DecodablePositions) |-> ParseLines[DecodablePosition(k)]]

\* C29: ParseSession fails only when the file cannot be opened or read; the
\* lines that do not decode give no entry and leave the header and the
\* entries of the other lines as they are without these lines, except for
\* the line numbers: every entry carries the position in the file of the
\* line it stems from, counted from 1
UndecodableLinesSkipped ==
    /\ (reader.op = "ParseSession" /\ reader.err # NilErr) => reader.err = OpenErr(ParsePath)
    /\ Parsed =>
         LET out   == reader.session.Items
             clean == ParseSession(DecodableLines, trimUserRequestEnabled)
             kept  == KeptItems
         IN  /\ reader.session.Meta = clean.Meta
             /\ Len(out) = Len(clean.Items)
             /\ \A j \in 1..Len(out) :
                  /\ out[j] = [clean.Items[j] EXCEPT !.Line = DecodablePosition(@)]
                  /\ out[j].Line \in 1..Len(ParseLines)
                  /\ ParseLines[out[j].Line] = out[j].Raw
                  /\ ~Undecodable(ParseLines[out[j].Line])
             /\ (Len(ParseLines) > 0 /\ Displayed(ParseLines[1]) /\ ParseLines[1].payloadOk)
                  => /\ Len(out) > 0
                     /\ kept[1].Line = 1
                     /\ (~isUserMessage(out[1]) \/ Len(kept) = 1) => out[1].Line = 1

\* a file whose first and last lines do not decode was parsed into the one
\* entry of its second line
SecondLineNumberedTwo ==
    /\ Parsed
    /\ Len(ParseLines) = MaxLines
    /\ ParseLines[1].type = "not-json"
    /\ Undecodable(ParseLines[MaxLines]) /\ ParseLines[MaxLines].type = "response_item"
    /\ Len(reader.session.Items) = 1
    /\ reader.session.Items[1].Line = 2

\* C30: no entry of a parsed session has a blank content, before the merge
\* or after it: an item whose text, cut at the marker where that applies,
\* is empty has the pretty-printed payload as content, or "(empty)" should
\* that be blank; and buildEntries makes exactly one searchable entry of
\* every merged item, in order
ContentNeverBlank ==
    /\ Parsed =>
         LET kept == KeptItems IN
         /\ \A i \in 1..Len(kept) :
              LET l == kept[i].Raw
                  pretty == <<"{">> \o l.text \o <<"}">>
              IN  /\ TrimSpace(kept[i].Content) # <<>>
                  /\ kept[i].Content =
                       IF RequestText(l) # <<>> THEN RequestText(l)
                       ELSE IF TrimSpace(pretty) # <<>> THEN pretty
                       ELSE EmptyPlaceholder
         /\ \A j \in 1..Len(reader.session.Items) :
              TrimSpace(reader.session.Items[j].Content) # <<>>
    /\ reader.op = "buildEntries" =>
         /\ Len(reader.entries) = Len(reader.session.Items)
         /\ \A j \in 1..Len(reader.entries) :
              /\ reader.entries[j].line = reader.session.Items[j].Line
              /\ reader.entries[j].role = reader.session.Items[j].Role
              /\ reader.entries[j].content = TrimSpace(reader.session.Items[j].Content)

\* a user message of blank text, between two other items, was parsed into
\* an entry holding its payload, and every item became a searchable entry
BlankMessageShowsPayload ==
    /\ reader.op = "buildEntries"
    /\ Len(reader.entries) = MaxLines
    /\ reader.session.Items[2].Raw.text = <<" ">>
    /\ reader.entries[2].content = <<"{", " ", "}">>

\* file names a caller can pass to Lookup: the names of the tree, the empty
\* name, and names with "/", "." and ".." in them
LookupNames ==
    {FileName(n) : n \in {"a.jsonl", "b.jsonl", "notes.txt"}}
    \cup { << <<>> >>,
           << <<".">>, <<"a.jsonl">> >>,
           << <<".", ".">>, <<"0","2">>, <<"a.jsonl">> >>,
           << <<".", ".">>, <<"1","0">>, <<"a.jsonl">> >>,
           << <<"x">>, <<".", ".">>, <<"a.jsonl">> >>,
           << <<"a.jsonl">>, <<".", ".">> >> }

\* C21 as stated: Lookup finds a file only under its own date and its own
\* name, character for character: not under the empty name nor under a name
\* with a separator or a ".." segment; and every indexed file is found under
\* its own (Date, Name), with its path
LookupExactMatch ==
    /\ \A d \in {D1, D2}, n \in LookupNames :
         LookupOk(d, n) =>
           /\ Lookup(d, n).Date = d
           /\ FileName(Lookup(d, n).Name) = n
    /\ \A f \in DateFiles :
         /\ LookupOk(f.Date, FileName(f.Name))
         /\ Lookup(f.Date, FileName(f.Name)) = f
         /\ f.Path = P(f.Date, f.Name)

\* three files of two dates are listed, the newer file of a date first
\* although its name sorts last
ThreeFilesOrdered ==
    /\ pc = "wait" /\ lastErr.op = "RefreshFrom"
    /\ Cardinality(DOMAIN files) = 3
    /\ \A p \in DOMAIN files : files[p].entries # <<>>
    /\ \E d \in DOMAIN byDate :
         /\ Len(byDate[d]) = 2
         /\ NameLess(byDate[d][2].Name, byDate[d][1].Name)
    /\ ordered[1].date # ordered[Len(ordered)].date
-----------------------------------------------------------------------------
(* ParseSessionMeta read line by line, on files of header and message lines *)

MetaKinds ==
    { MetaLine("abc", "/w"),
      MetaLine("abc", ""),
      MetaLine("", "/h"),
      MetaLine("", ""),
      FlatMeta("xyz", "", 1),
      FlatMeta("", "", 0),
      Msg("user", <<CwdMarker, "/tmp">>),
      Msg("assistant", <<CwdMarker, "/two">>),
      FlatMsg("user", <<CwdMarker, "/flat">>),
      Msg("user", <<"n">>),
      NotJSON,
      BadPayload("session_meta") }

ReadErr(p) == [kind |-> "read", path |-> p]

InitMeta ==
    /\ baseDir = "/sessions"
    /\ trimUserRequestEnabled = FALSE
    /\ \E n \in 0..MaxLines : \E f \in [1..n -> MetaKinds] :
         disk = [p \in {ParsePath} |-> File(f, 1)]
    /\ diskOps = 0
    /\ byDate = EmptyMap /\ byName = EmptyMap /\ byCwd = EmptyMap
    /\ updated = 0
    /\ walk = NoWalk
    /\ files = EmptyMap
    /\ ordered = <<>>
    /\ rf = NoRf
    /\ pc = "wait"
    /\ cycle = 0
    /\ lastErr = NoErr
    /\ hist = NoHist
    /\ view = NoView
    /\ reader = NoReader
    /\ mu = NoLock

\* lines 13-17 and 19-21: os.Open, which can fail, and the loop's variables
MetaOpen ==
    /\ reader.op = "none"
    /\ \E openOk \in BOOLEAN :
         reader' = IF openOk
                   THEN [op |-> "ParseSessionMeta", pc |-> "loop", io |-> TRUE,
                         st |-> MetaStart, err |-> NilErr, result |-> NilMeta]
                   ELSE [op |-> "ParseSessionMeta", pc |-> "returned", io |-> FALSE,
                         st |-> MetaStart, err |-> OpenErr(ParsePath),
                         result |-> NilMeta]
    /\ ReaderFrame

\* lines 62-64: what the function returns after the loop
MetaReturn(st) ==
    [op |-> "ParseSessionMeta", pc |-> "returned", io |-> TRUE, st |-> st,
     err |-> NilErr, result |-> st.meta]

\* lines 24-51: ReadBytes delivers the next line, and the loop body runs on it
MetaReadLine ==
    /\ reader.op = "ParseSessionMeta" /\ reader.pc = "loop"
    /\ reader.st.read < Len(ParseLines)
    /\ LET st == metaStep(reader.st, ParseLines[reader.st.read + 1])
       IN  reader' = IF st.done THEN MetaReturn(st) ELSE [reader EXCEPT !.st = st]
    /\ ReaderFrame

\* lines 24 and 53-55: ReadBytes finds the end of the file
MetaReadEOF ==
    /\ reader.op = "ParseSessionMeta" /\ reader.pc = "loop"
    /\ reader.st.read = Len(ParseLines)
    /\ reader' = MetaReturn(reader.st)
    /\ ReaderFrame

\* lines 24 and 56-58: ReadBytes fails
MetaReadFail ==
    /\ reader.op = "ParseSessionMeta" /\ reader.pc = "loop"
    /\ reader' = [reader EXCEPT !.pc = "returned", !.io = FALSE,
                                !.err = ReadErr(ParsePath), !.result = NilMeta]
    /\ ReaderFrame

NextMeta == MetaOpen \/ MetaReadLine \/ MetaReadEOF \/ MetaReadFail

SpecMeta == InitMeta /\ [][NextMeta]_vars

\* line i of the file carries a header
HeaderLine(i) == ~metaFromLine(ParseLines[i]).nil
\* line i of the file is a message whose text names a working directory
CandidateLine(i) ==
    /\ extractMessageTextFromLine(ParseLines[i]) # <<>>
    /\ extractCwdFromText(extractMessageTextFromLine(ParseLines[i])) # ""
\* the first k lines give a header with an id and a working directory
KnownAfter(k) ==
    /\ \E i \in 1..k : HeaderLine(i) /\ metaFromLine(ParseLines[i]).ID # ""
    /\ \/ \E i \in 1..k : HeaderLine(i) /\ metaFromLine(ParseLines[i]).Cwd # ""
       \/ \E i \in 1..k : CandidateLine(i)
\* the line the header-only parse stops at: the whole file when no line
\* completes the header
StopLine ==
    IF \E k \in 1..Len(ParseLines) : KnownAfter(k)
    THEN CHOOSE k \in 1..Len(ParseLines) :
           KnownAfter(k) /\ \A j \in 1..(k - 1) : ~KnownAfter(j)
    ELSE Len(ParseLines)
MetaReturned == reader.op = "ParseSessionMeta" /\ reader.pc = "returned"

\* C31: the header-only parse never reads past the first line after which
\* the id and the working directory are both known; it returns there, or at
\* the end of the file; it returns an error exactly when opening or reading
\* failed; without an error it returns no header exactly when no line of the
\* file carries one
HeaderParseStops ==
    /\ reader.op = "ParseSessionMeta" => reader.st.read <= StopLine
    /\ MetaReturned =>
         /\ reader.err # NilErr <=> ~reader.io
         /\ reader.err # NilErr => reader.result.nil
         /\ reader.err = NilErr =>
              /\ reader.st.read = StopLine
              /\ reader.result.nil <=> \A i \in 1..Len(ParseLines) : ~HeaderLine(i)

\* the parse returned after two lines of three, the id from the header line
\* and the directory from the message before it
StoppedBeforeLastLine ==
    /\ MetaReturned /\ reader.err = NilErr
    /\ Len(ParseLines) = 3 /\ reader.st.read = 2
    /\ CandidateLine(1) /\ HeaderLine(2)
    /\ reader.result = Meta("abc", "/tmp")
\* the least element of a non-empty set of line numbers
FirstOf(S) == CHOOSE i \in S : \A j \in S : i <= j
\* the directory the message of line i names
CandidateOf(i) == extractCwdFromText(extractMessageTextFromLine(ParseLines[i]))

\* C33: after any number of lines read, the candidate is the directory of the
\* first message read that names one; the header exists once a header line
\* was read, and its working directory is the one a header line gave, unless
\* the candidate was there, with a header line read, before any header line
\* gave one: a directory the header has is never replaced, and a candidate
\* found before the first header line is applied with that line
CandidateOnlyFillsGap ==
    reader.op = "ParseSessionMeta" =>
      LET st   == reader.st
          hs   == {i \in 1..st.read : HeaderLine(i)}
          cs   == {i \in 1..st.read : CandidateLine(i)}
          own  == {i \in hs : metaFromLine(ParseLines[i]).Cwd # ""}
          from == IF FirstOf(cs) > FirstOf(hs) THEN FirstOf(cs) ELSE FirstOf(hs)
      IN  /\ st.cwdCandidate = IF cs = {} THEN "" ELSE CandidateOf(FirstOf(cs))
          /\ st.meta.nil <=> hs = {}
          /\ hs # {} =>
               st.meta.Cwd =
                 IF own # {} /\ (cs = {} \/ FirstOf(own) <= from)
                 THEN metaFromLine(ParseLines[FirstOf(own)]).Cwd
                 ELSE IF cs # {} THEN CandidateOf(FirstOf(cs)) ELSE ""

\* two messages name a directory before the flat header line, which has
\* none: the header gets the directory of the first message
FirstCandidateApplied ==
    /\ MetaReturned /\ reader.err = NilErr
    /\ reader.st.read = 3
    /\ CandidateLine(1) /\ CandidateLine(2) /\ CandidateOf(1) # CandidateOf(2)
    /\ HeaderLine(3) /\ ParseLines[3].type = ""
    /\ reader.result = Meta("xyz", CandidateOf(1))
-----------------------------------------------------------------------------
(* ParseSession: the header of the session *)

\* the session_meta lines of the file whose payload decodes
DecodedHeaders ==
    {i \in 1..Len(ParseLines) :
       ParseLines[i].type = "session_meta" /\ ParseLines[i].payloadOk}
LastOf(S) == CHOOSE i \in S : \A j \in S : j <= i

\* C32: the header of the parsed session is the payload of the last
\* session_meta line whose payload decoded, whatever the session_meta lines
\* before it held and whatever undecodable session_meta lines follow it; a
\* file without such a line gives a session without header
LastDecodedHeaderWins ==
    Parsed =>
      reader.session.Meta =
        IF DecodedHeaders = {} THEN NilMeta
        ELSE Meta(ParseLines[LastOf(DecodedHeaders)].id,
                  ParseLines[LastOf(DecodedHeaders)].cwd)

\* two session_meta lines of different payloads and a third whose payload
\* does not decode: the session has the header of the second
SecondHeaderKept ==
    /\ Parsed
    /\ Len(ParseLines) = 3
    /\ DecodedHeaders = {1, 2}
    /\ ParseLines[3].type = "session_meta"
    /\ ParseLines[1].id # ParseLines[2].id
    /\ reader.session.Meta = Meta("xyz", "")
\* C34 as stated: ParseSession of the flat-format file of
\* TestParseSessionDirectFormat returns the header with id "xyz" and the
\* working directory "/tmp" of the user message's environment context, and
\* three entries in file order: the user message, the assistant message
\* "Hello" and the reasoning "Reason"
DirectFormatParsed ==
    (Parsed /\ ParseLines = ContentDirect) =>
      /\ ~reader.session.Meta.nil
      /\ reader.session.Meta.ID = "xyz"
      /\ reader.session.Meta.Cwd = "/tmp"
      /\ Len(reader.session.Items) = 3
      /\ isUserMessage(reader.session.Items[1])
      /\ reader.session.Items[2].Content = <<"H","e","l","l","o">>
      /\ reader.session.Items[3].Content = <<"R","e","a","s","o","n">>
-----------------------------------------------------------------------------
(* ParseSession: lines without entry inside a run *)

\* the item parseLine makes of line i of the file
ItemOfLine(i) == parseLine(ParseLines[i], i, trimUserRequestEnabled)
\* lines i < j both produce an entry, no line between them does, and the
\* two entries have the same (type, subtype, role)
SameRunAcross(i, j) ==
    /\ i < j
    /\ ~ItemOfLine(i).nil /\ ~ItemOfLine(j).nil
    /\ \A k \in (i + 1)..(j - 1) : ItemOfLine(k).nil
    /\ ItemKey(ItemOfLine(i)) = ItemKey(ItemOfLine(j))
\* line i starts a run, line j ends one
StartsRun(i) == ~\E h \in 1..(i - 1) : SameRunAcross(h, i)
EndsRun(j) == ~\E k \in (j + 1)..Len(ParseLines) : SameRunAcross(j, k)

\* C39: two lines that produce entries of the same (type, subtype, role) and
\* have only lines without entry between them (or none) are in one run: the
\* parsed session has no entry of its own for the second when they are not
\* user messages and none for the first when they are; a run of two user
\* messages gives the one entry of the later message, a run of two other
\* items with non-blank contents gives one entry at the first line with the
\* contents joined by a blank line
RunsOverKeptEntries ==
    Parsed =>
      LET out == reader.session.Items
          n   == Len(ParseLines)
      IN  \A i \in 1..n, j \in 1..n :
            SameRunAcross(i, j) =>
              LET a == ItemOfLine(i)
                  b == ItemOfLine(j)
              IN  IF isUserMessage(a)
                  THEN /\ \A x \in 1..Len(out) : out[x].Line # i
                       /\ EndsRun(j) => \E x \in 1..Len(out) : out[x] = b
                  ELSE /\ \A x \in 1..Len(out) : out[x].Line # j
                       /\ (StartsRun(i) /\ EndsRun(j)) =>
                            \E x \in 1..Len(out) :
                              /\ out[x].Line = i
                              /\ out[x].Content = JoinContents(<<a, b>>, 1, 2)

\* two assistant messages with a line without entry between them were
\* parsed into one entry holding both contents
AssistantRunAcrossGap ==
    /\ Parsed
    /\ Len(ParseLines) = 3
    /\ SameRunAcross(1, 3) /\ ItemOfLine(2).nil
    /\ ItemOfLine(1).Role = "assistant"
    /\ Len(reader.session.Items) = 1
    /\ reader.session.Items[1].Content =
         ItemOfLine(1).Content \o <<"\n", "\n">> \o ItemOfLine(3).Content
-----------------------------------------------------------------------------
(* Search previews: one message with text before and after "Hi" *)

\* n bytes of text without the letters of a query: plain, with blanks, with
\* line ends, or of Kelvin signs
PadKinds == {"plain", "blanks", "lines", "kelvin"}
Pad(n, kind) ==
    [i \in 1..n |->
       IF kind = "blanks" THEN (IF i % 2 = 0 THEN " " ELSE "x")
       ELSE IF kind = "lines"
       THEN (IF i % 5 = 0 THEN "\n" ELSE IF i % 5 = 3 THEN "\r" ELSE "x")
       ELSE IF kind = "kelvin" /\ i <= 3 * (n \div 3) THEN KelvinSign[((i - 1) % 3) + 1]
       ELSE "x"]
PadLens ==
    {0, 1, snippetRadius - 1, snippetRadius, snippetRadius + 1, 2 * snippetRadius + 3}
PreviewText(a, b, kind) == Pad(a, kind) \o <<"H", "i">> \o Pad(b, kind)

InitPreview ==
    /\ baseDir = "/sessions"
    /\ trimUserRequestEnabled = TRUE
    /\ \E a \in PadLens, b \in PadLens, kind \in PadKinds :
         disk = [p \in Paths |->
                   IF p = P(D1, "a.jsonl")
                   THEN File(<<Msg("assistant", PreviewText(a, b, kind))>>, 1)
                   ELSE NoFile]
    /\ diskOps = 0
    /\ byDate = EmptyMap /\ byName = EmptyMap /\ byCwd = EmptyMap
    /\ updated = 0
    /\ walk = NoWalk
    /\ files = EmptyMap
    /\ ordered = <<>>
    /\ rf = NoRf
    /\ pc = "refresh"
    /\ cycle = 0
    /\ lastErr = NoErr
    /\ hist = NoHist
    /\ view = NoView
    /\ reader = NoReader
    /\ mu = NoLock

SpecPreview == InitPreview /\ [][NextSearch]_vars

\* the content with its line ends and carriage returns replaced by blanks
Cleaned(s) == [i \in 1..Len(s) |-> IF s[i] \in {"\n", "\r"} THEN " " ELSE s[i]]
\* the query, whatever the case, is at offset m of the text
MatchAt(text, q, m) ==
    /\ m + Len(q) <= Len(text)
    /\ ToLower(SubSeq(text, m + 1, m + Len(q))) = ToLower(q)

\* C35 as stated: the preview of every result is a window of the entry's
\* content, line ends and carriage returns replaced by blanks, around an
\* occurrence of the query: the window (blanks at its ends apart) holds the
\* matched text, at most 60 characters before it and at most 60 after it;
\* "..." precedes it iff it does not begin at the start of the content and
\* follows it iff it does not reach the end; the preview is no longer than
\* 60 + the length of the query + 60 and the two markers
PreviewIsWindowAroundMatch ==
    reader.op = "Search" =>
      LET q == Cleaned(TrimSpace(reader.query))
          m == Matches(reader.list, reader.query)
      IN  \A i \in 1..Len(reader.previews) :
            LET text == Cleaned(m[i].content)
                p    == reader.previews[i]
            IN  /\ Len(p) <= snippetRadius + Len(q) + snippetRadius + 2 * Len(Ellipsis)
                /\ \E at \in 0..Len(text) :
                     /\ MatchAt(text, q, at)
                     /\ \E s \in 0..at, t \in (at + Len(q))..Len(text) :
                          /\ at - s <= snippetRadius
                          /\ t - (at + Len(q)) <= snippetRadius
                          /\ p = (IF s > 0 THEN Ellipsis ELSE <<>>)
                                   \o TrimSpace(SubSeq(text, s + 1, t))
                                   \o (IF t < Len(text) THEN Ellipsis ELSE <<>>)
-----------------------------------------------------------------------------
(* main: a rescan of the ticker loop that fails *)

\* the rescan of a tick returned an error
RescanFailed == cycle >= 1 /\ lastErr.op = "Refresh" /\ lastErr.err # NilErr

\* C37: once the rescan of a tick has failed, the cycle is over without a
\* call of RefreshFrom: the loop waits for the next tick, the cache map and
\* the flattened list of the search index are those of the moment of the
\* tick, so that every Search returns what it returned then, and the
\* scanner's LastUpdated is the one of before the rescan
FailedRescanSkipsReindex ==
    RescanFailed =>
      /\ pc = "wait"
      /\ rf = NoRf
      /\ hist.searchPre = NoHist.searchPre
      /\ SearchSnapshot = hist.tick.search
      /\ \A q \in SearchQueries : Search(q, 0) = SearchIn(hist.tick.search[2], q, 0)
      /\ updated = hist.scanPre[4]

\* the rescan of a tick failed after a session was written that the search
\* index, built at startup, does not have
FailedRescanAfterWrite ==
    /\ RescanFailed
    /\ hist.written
    /\ files # EmptyMap
    /\ updated > 0
    /\ \E p \in SessionPaths :
         /\ disk[p].exists
         /\ p \in DOMAIN files => files[p].size # FileSize(disk[p].lines)
-----------------------------------------------------------------------------
(* RefreshFrom: a file whose parse failed *)

\* the files the next RefreshFrom would parse if the scanner's snapshot were
\* still the one this RefreshFrom consumed
NextToParse ==
    Range(partition(UsedOrder, 1, files, [next |-> makeNext(files), toParse |-> <<>>]).toParse)

\* C38: after a RefreshFrom, a file whose parse failed has no record in the
\* published cache if it had none before, and then no entry in the
\* flattened list, or else has its previous record, whose (size, modtime)
\* is not the one of the file as scanned; so a RefreshFrom on the same
\* snapshot would parse it again, and a file that failed in the cycle before
\* and was scanned again unchanged has been parsed again by this RefreshFrom
FailedParseRetried ==
    (RfIdle /\ hist.failed \cup hist.tick.failed # {}) =>
      /\ \A f \in UsedFiles :
           f.Path \in hist.failed =>
             /\ IF f.Path \in DOMAIN Pre
                THEN /\ f.Path \in DOMAIN files
                     /\ files[f.Path] = Pre[f.Path]
                     /\ <<files[f.Path].size, files[f.Path].modTime>>
                          # <<f.Size, f.ModTime>>
                ELSE /\ f.Path \notin DOMAIN files
                     /\ EntriesOf(ordered, f) = <<>>
             /\ f \in NextToParse
      /\ \A f \in hist.tick.failed :
           f \in UsedFiles => f.Path \in hist.parsed \cup hist.failed

\* a new file whose parse failed at startup was scanned again unchanged by
\* the rescan of the tick, parsed, and is now searchable
FailedFileParsedNextCycle ==
    /\ RfIdle /\ cycle >= 1
    /\ diskOps = 0
    /\ \E f \in hist.tick.failed :
         /\ f \in UsedFiles
         /\ f.Path \notin DOMAIN hist.tick.search[1]
         /\ f.Path \in hist.parsed
         /\ EntriesOf(ordered, f) # <<>>
-----------------------------------------------------------------------------
(* RefreshFrom against an index built from nothing *)

\* the parse loop of a RefreshFrom on an empty index over the consumed
\* snapshot, every file read as it was scanned
RECURSIVE FreshNext(_, _)
FreshNext(list, i) ==
    IF i > Len(list) THEN EmptyMap
    ELSE MapPut(FreshNext(list, i + 1), list[i].Path,
                parsedRecord(list[i],
                             buildEntries(list[i], hist.scanned[list[i].Path],
                                          trimUserRequestEnabled),
                             EmptyMap))
FreshFiles == FreshNext(UsedOrder, 1)

\* this cycle's parses all succeeded, each on the file as it was scanned,
\* and every record carried over for its (size, modtime) was built from the
\* content the file was scanned with
CycleIsFaithful ==
    /\ hist.failed = {}
    /\ \A p \in hist.parsed : hist.lines[p] = hist.scanned[p]
    /\ \A f \in UsedFiles : CacheHit(f) => hist.src[f.Path] = hist.scanned[f.Path]

\* C36: after a RefreshFrom of such a cycle, whatever was written or removed
\* and whatever failed in the cycles before, the cache map and the flattened
\* list are those of an empty index after one RefreshFrom on the same
\* scanner snapshot, and Search returns on the one what it returns on the
\* other
IncrementalEqualsRebuild ==
    (RfIdle /\ CycleIsFaithful) =>
      LET fresh == FreshFiles
          list  == orderedOfDates(Dates, 1, fresh)
      IN  /\ files = fresh
          /\ ordered = list
          /\ \A q \in SearchQueries : Search(q, 0) = SearchIn(list, q, 0)

\* a rescan found one file rewritten and another one new or gone; the
\* index kept a record, parsed another file, and is what a rebuild gives
RebuildAfterChange ==
    /\ RfIdle /\ CycleIsFaithful /\ cycle >= 1
    /\ diskOps > 0
    /\ hist.parsed # {}
    /\ \E f \in UsedFiles : CacheHit(f) /\ files[f.Path].entries # <<>>
    /\ files # hist.tick.search[1]
====
